---- MODULE Spec2Model ----
(***************************************************************************)
(* Loan prequalification pipeline: transactional outbox publisher with     *)
(* circuit breaker, idempotent Kafka consumers (credit-service and         *)
(* decision-service) and the optimistic-locking repository, modelled from  *)
(* services/prequal-api, services/credit-service, services/decision-service*)
(***************************************************************************)
EXTENDS Integers, Sequences, FiniteSets, TLC

(***************************************************************************)
(* Bounds of the model                                                     *)
(***************************************************************************)
\* number of applications that create_application may commit
NumApps == 2
\* injected failures (exceptions, lost deliveries, crashes, rebalances) per run
MaxFaults == 2
\* injected failures per run of the publisher on its own
OutboxFaults == 5
\* wall-clock granularity and horizon (seconds)
TickStep == 15
MaxTime == 74
\* horizon of the publisher's sleeping through open timeouts (seconds)
MaxWaitTime == 30
\* cap on the length of a bus topic's log
MaxTopicLen == 3
\* cap on the rows of the outbox when writers add further events
MaxEvents == 3

(***************************************************************************)
(* Program constants                                                       *)
(***************************************************************************)
FailureThreshold == 5
Timeout == 30
SuccessThreshold == 2
BatchSize == 10
MaxRetries == 5
MaxUpdateRetries == 3
MinimumCibilScore == 650
LoanTermMonths == 48
BaseScore == 650

SubmittedTopic == "loan_applications_submitted"
ReportsTopic == "credit_reports_generated"
CreditGroup == "credit-service-group"
DecisionGroup == "decision-service-group"

\* Optional values: None is the empty sequence, Some(x) a one-element sequence
None == <<>>
Some(x) == <<x>>

AppIds == 1..NumApps
PANs == {"ABCDE1234F", "FGHIJ5678K"}
Amounts == {500000}
DWorkers == {1, 2}
\* create_application calls served side by side
Requests == {1, 2}
\* Outbox Publisher instances run against one store
Publishers == {1, 2}
\* values batch_size is configured with: one row per cycle, and the default
BatchSizes == {1, BatchSize}

VARIABLES
    applications,        \* table applications: application_id -> row
    audit_log,           \* table audit_log: sequence of rows
    outbox_events,       \* table outbox_events: sequence of rows, id = index
    processed_messages,  \* table processed_messages: set of rows (message_id unique)
    topicSubmitted,      \* bus log of loan_applications_submitted (one partition)
    topicReports,        \* bus log of credit_reports_generated (one partition)
    circuit_breaker,     \* OutboxPublisher.circuit_breaker
    batch_size,          \* OutboxPublisher.batch_size
    publishers,          \* per instance run side by side: position in the cycle, rows
                         \* its session loaded, its circuit breaker, its flag `running`,
                         \* where stop() met it, whether start() has returned
    now,                 \* wall clock, time.time()
    cPos,                \* credit-service consumer: next offset poll() returns
    cCommitted,          \* credit-service group: committed offset of the partition
    dOwner,              \* decision-service instance the partition is assigned to
    dPos,                \* per instance: next offset poll() returns
    dCommitted,          \* decision-service group: committed offset of the partition
    dPc,                 \* per instance: position inside process_message
    dMsg,                \* per instance: offset of the message in process
    dTx,                 \* per instance: uncommitted UPDATE of its database session
    dAttempt,            \* per instance: attempt of update_with_retry
    dVersion,            \* per instance: current_version read by update_with_retry
    update_log,          \* history: UPDATE statements committed on applications
    ack_log,             \* history: message ids whose offset the success path committed
    rollback_log,        \* history: (instance, message id) whose transaction the ledger's
                         \* unique message_id rolled back
    breaker_log,         \* history of CircuitBreaker.call: outcome of the last call,
                         \* failed calls in a row, time of the last rejected call
    requests,            \* create_application calls in flight: position, PAN, response
    running,             \* per worker process: the flag `running` of its consumer
    signal_log,          \* history: where in its loop a shutdown signal met a worker
    retry_log,           \* history: calls of update_with_retry that raised OptimisticLockError
    scoring,             \* callers of CibilService.calculate_score: the payload, the state
                         \* of the generator of module random in each process, the calls made
    deciding,            \* a caller of DecisionService.make_decision: arguments and result
    max_update_retries,  \* decision-service Settings.max_update_retries
    faults               \* remaining failure budget

dbVars == <<applications, audit_log, outbox_events, processed_messages>>
busVars == <<topicSubmitted, topicReports>>
pubVars == <<circuit_breaker, batch_size, publishers, now>>
creditVars == <<cPos, cCommitted>>
decisionVars == <<dOwner, dPos, dCommitted, dPc, dMsg, dTx, dAttempt, dVersion>>
histVars == <<update_log, ack_log, rollback_log, breaker_log>>
runVars == <<requests, running, signal_log, retry_log>>
fnVars == <<scoring, deciding>>
vars == <<dbVars, busVars, pubVars, creditVars, decisionVars, histVars, runVars, fnVars,
          max_update_retries, faults>>

(***************************************************************************)
(* Helpers                                                                 *)
(***************************************************************************)
\* dict.get(key, default)
Get(d, k, default) == IF k \in DOMAIN d THEN d[k] ELSE default

Max(a, b) == IF a >= b THEN a ELSE b
Min(a, b) == IF a <= b THEN a ELSE b

(***************************************************************************)
(* Python float: IEEE 754 binary64, round to nearest, ties to even.  A     *)
(* finite value >= 0 is [m, e]: the significand of MantissaBits bits is    *)
(* kept in three limbs m = <<a, b, c>> of 7, 23 and 23 bits, most          *)
(* significant first, and the value is (a * Limb^2 + b * Limb + c) * 2^e;  *)
(* zero has the significand <<0, 0, 0>>                                    *)
(***************************************************************************)
MantissaBits == 53
LimbBits == 23
Limb == 2^LimbBits
TopLimb == 2^(MantissaBits - 2 * LimbBits)

FloatZero == [m |-> <<0, 0, 0>>, e |-> 0]

\* Number of binary digits of x < 2^31
BitLength(x) == Cardinality({k \in 0..30 : 2^k <= x})

\* W \div 2^s for a number W of five limbs, most significant first
ShiftRight(W, s) ==
    LET j == s \div LimbBits
        t == s % LimbBits
        limb(k) == IF k >= 1 THEN W[k] ELSE 0
    IN  [k \in 1..5 |-> (limb(k - j) \div 2^t) + (limb(k - j - 1) % 2^t) * 2^(LimbBits - t)]

\* The float nearest to W * 2^e, ties to even, for a number W of five limbs
\* that is zero or has MantissaBits bits or more; inexact says that the exact
\* value lies above W * 2^e and below (W + 1) * 2^e
round_float(W, e, inexact) ==
    LET nonzero == {k \in 1..5 : W[k] # 0}
        first == CHOOSE k \in nonzero : \A l \in nonzero : k <= l
        s == LimbBits * (5 - first) + BitLength(W[first]) - MantissaBits
        kept == ShiftRight(W, s)
        \* the highest bit shifted out, the limb it is in, its place there
        g == 5 - ((s - 1) \div LimbBits)
        place == (s - 1) % LimbBits
        guard == IF s = 0 THEN 0 ELSE (W[g] \div 2^place) % 2
        below == \/ inexact
                 \/ s > 0 /\ (W[g] % 2^place # 0 \/ \E k \in (g + 1)..5 : W[k] # 0)
        up == guard = 1 /\ (below \/ kept[5] % 2 = 1)
        m == IF ~up THEN <<kept[3], kept[4], kept[5]>>
             ELSE IF kept[5] + 1 < Limb THEN <<kept[3], kept[4], kept[5] + 1>>
             ELSE IF kept[4] + 1 < Limb THEN <<kept[3], kept[4] + 1, 0>>
             ELSE <<kept[3] + 1, 0, 0>>
    IN  IF nonzero = {} THEN FloatZero
        ELSE IF m[1] = TopLimb THEN [m |-> <<TopLimb \div 2, 0, 0>>, e |-> e + s + 1]
        ELSE [m |-> m, e |-> e + s]

\* float(n) of an integer 0 <= n < 2^31
float_of_int(n) == round_float(<<n \div Limb, n % Limb, 0, 0, 0>>, 0 - 3 * LimbBits, FALSE)

\* x / d for an integer 0 < d <= 128: long division limb by limb
float_div(x, d) ==
    LET q1 == x.m[1] \div d
        r1 == x.m[1] % d
        q2 == (r1 * Limb + x.m[2]) \div d
        r2 == (r1 * Limb + x.m[2]) % d
        q3 == (r2 * Limb + x.m[3]) \div d
        r3 == (r2 * Limb + x.m[3]) % d
        q4 == (r3 * Limb) \div d
        r4 == (r3 * Limb) % d
        q5 == (r4 * Limb) \div d
        r5 == (r4 * Limb) % d
    IN  round_float(<<q1, q2, q3, q4, q5>>, x.e - 2 * LimbBits, r5 # 0)

\* x * c for an integer 0 <= c < 256
float_mul(x, c) ==
    LET p3 == x.m[3] * c
        p2 == x.m[2] * c + p3 \div Limb
        p1 == x.m[1] * c + p2 \div Limb
    IN  round_float(<<0, 0, p1, p2 % Limb, p3 % Limb>>, x.e, FALSE)

\* float() of a decimal number with two fractional digits, given in hundredths
float_of_decimal(hundredths) == float_div(float_of_int(hundredths), 100)

\* x > y
float_gt(x, y) ==
    IF x = FloatZero THEN FALSE
    ELSE IF y = FloatZero THEN TRUE
    ELSE \/ x.e > y.e
         \/ /\ x.e = y.e
            /\ \/ x.m[1] > y.m[1]
               \/ x.m[1] = y.m[1] /\ x.m[2] > y.m[2]
               \/ x.m[1] = y.m[1] /\ x.m[2] = y.m[2] /\ x.m[3] > y.m[3]

\* EncryptionService: a black-box codec
hash_pan(pan) == <<"sha256", pan>>
encrypt_pan(pan) == <<"aesgcm", pan>>
decrypt_pan(c) == c[2]
encrypt_pan_for_kafka(pan) == <<"b64", encrypt_pan(pan)>>
decrypt_pan_from_kafka(s) == decrypt_pan(s[2])

(***************************************************************************)
(* prequal-api: ApplicationService.create_application                      *)
(***************************************************************************)
NextApplicationId == Cardinality(DOMAIN applications) + 1

NewApplication(id, pan, amount) ==
    [application_id |-> id,
     pan_number_encrypted |-> encrypt_pan(pan),
     pan_number_hash |-> hash_pan(pan),
     requested_amount |-> amount,
     status |-> "PENDING",
     credit_score |-> None,
     annual_income |-> None,
     decision_reason |-> None,
     max_approved_amount |-> None,
     version |-> 1]

NewOutboxEvent(id, app, pan, amount) ==
    [id |-> id,
     aggregate_id |-> app,
     event_type |-> "APPLICATION_SUBMITTED",
     payload |-> [application_id |-> app,
                  pan_number_encrypted |-> encrypt_pan_for_kafka(pan),
                  pan_number_hash |-> hash_pan(pan),
                  requested_amount |-> amount,
                  status |-> "PENDING"],
     topic_name |-> SubmittedTopic,
     partition_key |-> app,
     published |-> FALSE,
     published_at |-> None,
     error_message |-> None,
     retry_count |-> 0]

\* Mutant: the Application row is committed on its own before the outbox row
create_application_commit_split(apps, audit, outbox, id, pan, amount, commit_ok) ==
    [applications |-> apps @@ (id :> NewApplication(id, pan, amount)),
     audit_log |-> Append(audit, [application_id |-> id,
                                  service_name |-> "prequal-api",
                                  operation |-> "ENCRYPT"]),
     outbox_events |-> IF commit_ok
                       THEN Append(outbox, NewOutboxEvent(Len(outbox) + 1, id, pan, amount))
                       ELSE outbox]

\* Steps 3-6: the three rows are added to one session and committed together;
\* a failing commit rolls the session back.  Result: the three tables.
create_application_commit(apps, audit, outbox, id, pan, amount, commit_ok) ==
    IF commit_ok
    THEN [applications |-> apps @@ (id :> NewApplication(id, pan, amount)),
          audit_log |-> Append(audit, [application_id |-> id,
                                       service_name |-> "prequal-api",
                                       operation |-> "ENCRYPT"]),
          outbox_events |-> Append(outbox, NewOutboxEvent(Len(outbox) + 1, id, pan, amount))]
    ELSE [applications |-> apps, audit_log |-> audit, outbox_events |-> outbox]

DuplicatePan(pan) ==
    \E a \in DOMAIN applications : applications[a].pan_number_hash = hash_pan(pan)

CreateApplication(pan, amount, commit_ok) ==
    /\ NextApplicationId \in AppIds
    /\ ~DuplicatePan(pan)
    /\ commit_ok \/ faults > 0
    /\ LET r == create_application_commit(applications, audit_log, outbox_events,
                                          NextApplicationId, pan, amount, commit_ok)
       IN  /\ applications' = r.applications
           /\ audit_log' = r.audit_log
           /\ outbox_events' = r.outbox_events
    /\ faults' = IF commit_ok THEN faults ELSE faults - 1
    /\ UNCHANGED <<fnVars, max_update_retries, runVars, processed_messages, busVars, pubVars, creditVars, decisionVars, histVars>>

\* A writer other than create_application commits a further domain event of an
\* existing application to the outbox (the table takes any number of rows per
\* aggregate_id)
WriteDomainEvent(a) ==
    /\ a \in DOMAIN applications
    /\ Len(outbox_events) < MaxEvents
    /\ outbox_events' = Append(outbox_events,
          [id |-> Len(outbox_events) + 1,
           aggregate_id |-> a,
           event_type |-> "DOMAIN_EVENT",
           payload |-> [application_id |-> a, event |-> Len(outbox_events) + 1],
           topic_name |-> SubmittedTopic,
           partition_key |-> a,
           published |-> FALSE,
           published_at |-> None,
           error_message |-> None,
           retry_count |-> 0])
    /\ UNCHANGED <<fnVars, max_update_retries, runVars, applications, audit_log, processed_messages, busVars, pubVars, creditVars,
                   decisionVars, histVars, faults>>

\* Step 2: a PAN whose hash is stored is rejected with ValueError
CreateApplicationDuplicate(pan) ==
    /\ DuplicatePan(pan)
    /\ UNCHANGED vars

(***************************************************************************)
(* prequal-api: create_application calls served side by side, each in its  *)
(* own session                                                             *)
(***************************************************************************)
\* Mutant: applications has no unique index on pan_number_hash
unique_violation_none(apps, pan) == FALSE

\* Index idx_applications_pan_hash (unique): the INSERT of a row whose
\* pan_number_hash is stored raises IntegrityError
unique_violation(apps, pan) ==
    \E a \in DOMAIN apps : apps[a].pan_number_hash = hash_pan(pan)

\* Mutant: step 2 finds no existing application
find_by_pan_hash_none(apps, pan) == {}

\* Step 2: SELECT ... WHERE pan_number_hash = :pan_hash
find_by_pan_hash(apps, pan) ==
    {a \in DOMAIN apps : apps[a].pan_number_hash = hash_pan(pan)}

\* Steps 1-2 of request r: the duplicate check raises ValueError, which the
\* route reports as DUPLICATE_PAN, or lets the request go on
CreateCheck(r, pan) ==
    /\ requests[r].pc = "idle"
    /\ requests' = [requests EXCEPT ![r] =
          IF find_by_pan_hash(applications, pan) # {}
          THEN [pc |-> "done", pan |-> pan, result |-> "DUPLICATE_PAN",
                message |-> "Duplicate PAN detected"]
          ELSE [pc |-> "checked", pan |-> pan, result |-> "none", message |-> ""]]
    /\ UNCHANGED <<fnVars, max_update_retries, dbVars, busVars, pubVars, creditVars, decisionVars, histVars,
                   running, signal_log, retry_log, faults>>

\* Steps 3-6 of request r: the three rows are committed together; an
\* IntegrityError rolls back and is raised as ValueError, any other failure of
\* the commit rolls back and is reported as an internal error
CreateCommit(r, commit_ok) ==
    /\ requests[r].pc = "checked"
    /\ NextApplicationId \in AppIds
    /\ commit_ok \/ faults > 0
    /\ LET pan == requests[r].pan
           integrity == unique_violation(applications, pan)
           t == create_application_commit(applications, audit_log, outbox_events,
                                          NextApplicationId, pan, 500000,
                                          commit_ok /\ ~integrity)
       IN  /\ applications' = t.applications
           /\ audit_log' = t.audit_log
           /\ outbox_events' = t.outbox_events
           /\ requests' = [requests EXCEPT ![r].pc = "done",
                                           ![r].result = IF ~commit_ok THEN "INTERNAL_ERROR"
                                                         ELSE IF integrity THEN "DUPLICATE_PAN"
                                                         ELSE "202",
                                           ![r].message = IF ~commit_ok
                                                          THEN "Failed to create application"
                                                          ELSE IF integrity
                                                          THEN "Database integrity error"
                                                          ELSE "Application submitted successfully"]
    /\ faults' = IF commit_ok THEN faults ELSE faults - 1
    /\ UNCHANGED <<fnVars, max_update_retries, processed_messages, busVars, pubVars, creditVars, decisionVars, histVars,
                   running, signal_log, retry_log>>

\* The response of request r is sent; the next request is served
CreateReturn(r) ==
    /\ requests[r].pc = "done"
    /\ requests' = [requests EXCEPT ![r] = [pc |-> "idle", pan |-> "", result |-> "none", message |-> ""]]
    /\ UNCHANGED <<fnVars, max_update_retries, dbVars, busVars, pubVars, creditVars, decisionVars, histVars,
                   running, signal_log, retry_log, faults>>

(***************************************************************************)
(* prequal-api: CircuitBreaker                                             *)
(***************************************************************************)
NewCircuitBreaker ==
    [state |-> "CLOSED", failure_count |-> 0, success_count |-> 0,
     last_failure_time |-> None]

\* Mutant: a success does not reset failure_count
on_success_keeps_failures(cb) ==
    IF cb.state = "HALF_OPEN"
    THEN LET c2 == [cb EXCEPT !.success_count = @ + 1]
         IN  IF c2.success_count >= SuccessThreshold
             THEN [c2 EXCEPT !.state = "CLOSED", !.success_count = 0, !.failure_count = 0]
             ELSE c2
    ELSE cb

\* Mutant: closing the breaker does not reset success_count
on_success_keeps_count(cb) ==
    LET c1 == [cb EXCEPT !.failure_count = 0]
    IN  IF c1.state = "HALF_OPEN"
        THEN LET c2 == [c1 EXCEPT !.success_count = @ + 1]
             IN  IF c2.success_count >= SuccessThreshold
                 THEN [c2 EXCEPT !.state = "CLOSED"]
                 ELSE c2
        ELSE c1

\* CircuitBreaker._on_success
on_success(cb) ==
    LET c1 == [cb EXCEPT !.failure_count = 0]
    IN  IF c1.state = "HALF_OPEN"
        THEN LET c2 == [c1 EXCEPT !.success_count = @ + 1]
             IN  IF c2.success_count >= SuccessThreshold
                 THEN [c2 EXCEPT !.state = "CLOSED", !.success_count = 0]
                 ELSE c2
        ELSE c1

\* Mutant: a failure in HALF_OPEN is counted but does not open the breaker
on_failure_stays_half_open(cb, t) ==
    LET c1 == [cb EXCEPT !.failure_count = @ + 1, !.last_failure_time = Some(t)]
    IN  IF c1.state = "CLOSED" /\ c1.failure_count >= FailureThreshold
        THEN [c1 EXCEPT !.state = "OPEN"]
        ELSE c1

\* CircuitBreaker._on_failure at wall-clock time t
on_failure(cb, t) ==
    LET c1 == [cb EXCEPT !.failure_count = @ + 1, !.last_failure_time = Some(t)]
    IN  IF c1.state = "HALF_OPEN"
        THEN [c1 EXCEPT !.state = "OPEN", !.success_count = 0]
        ELSE IF c1.state = "CLOSED" /\ c1.failure_count >= FailureThreshold
             THEN [c1 EXCEPT !.state = "OPEN"]
             ELSE c1

\* Mutant: a rejected call counts as a failure at time t
call_gate_postpones(cb, t) ==
    IF cb.state = "OPEN"
    THEN IF t - cb.last_failure_time[1] >= Timeout
         THEN [pass |-> TRUE, cb |-> [cb EXCEPT !.state = "HALF_OPEN", !.success_count = 0]]
         ELSE [pass |-> FALSE, cb |-> [cb EXCEPT !.last_failure_time = Some(t)]]
    ELSE [pass |-> TRUE, cb |-> cb]

\* The gate at the head of CircuitBreaker.call: whether the wrapped function is
\* invoked, and the breaker after the OPEN -> HALF_OPEN check
call_gate(cb, t) ==
    IF cb.state = "OPEN"
    THEN IF t - cb.last_failure_time[1] >= Timeout
         THEN [pass |-> TRUE, cb |-> [cb EXCEPT !.state = "HALF_OPEN", !.success_count = 0]]
         ELSE [pass |-> FALSE, cb |-> cb]
    ELSE [pass |-> TRUE, cb |-> cb]

\* CircuitBreaker.call(func) at wall-clock time t, where func returns (ok) or
\* raises: the breaker afterwards, whether func was invoked, whether call raised
call(cb, ok, t) ==
    LET gate == call_gate(cb, t)
    IN  IF ~gate.pass THEN [cb |-> gate.cb, invoked |-> FALSE, raised |-> TRUE]
        ELSE IF ok THEN [cb |-> on_success(gate.cb), invoked |-> TRUE, raised |-> FALSE]
        ELSE [cb |-> on_failure(gate.cb, t), invoked |-> TRUE, raised |-> TRUE]

\* One call through the breaker
BreakerCall(ok) ==
    LET r == call(circuit_breaker, ok, now)
    IN  /\ circuit_breaker' = r.cb
        /\ breaker_log' =
              [last |-> IF ~r.invoked THEN "rejected" ELSE IF ok THEN "success" ELSE "failure",
               consecutive |-> IF ~r.invoked THEN breaker_log.consecutive
                               ELSE IF ok THEN 0 ELSE breaker_log.consecutive + 1,
               last_rejected |-> IF ~r.invoked THEN Some(now) ELSE breaker_log.last_rejected]
        /\ UNCHANGED <<fnVars, max_update_retries, runVars, dbVars, busVars, batch_size, publishers, now, creditVars, decisionVars,
                       update_log, ack_log, rollback_log, faults>>

(***************************************************************************)
(* prequal-api: OutboxPublisher                                            *)
(***************************************************************************)
\* What the bus does with one produce()+flush(): "ack" the message is delivered;
\* "nack" produce() is accepted but the delivery report is an error or the
\* message is still queued when flush(5 s) returns and never arrives;
\* "raise" produce() raises KafkaException; "abort" produce() raises and the
\* db.commit() of _handle_publish_failure raises as well.
SendOutcomes == {"ack", "nack", "raise", "abort"}

RECURSIVE SelectFrom(_, _, _)
SelectFrom(rows, i, n) ==
    IF i > Len(rows) \/ n = 0 THEN <<>>
    ELSE IF ~rows[i].published /\ rows[i].retry_count < MaxRetries
         THEN <<i>> \o SelectFrom(rows, i + 1, n - 1)
         ELSE SelectFrom(rows, i + 1, n)

\* Mutant: the SELECT has no retry_count < max_retries
select_batch_any_retry_count(rows) ==
    LET ids == {i \in DOMAIN rows : ~rows[i].published}
    IN  [k \in 1..Min(batch_size, Cardinality(ids)) |->
            CHOOSE i \in ids : Cardinality({j \in ids : j < i}) = k - 1]

\* Mutant: the SELECT has no LIMIT
select_batch_unlimited(rows) == SelectFrom(rows, 1, Len(rows))

\* The SELECT of _poll_and_publish: ids of the oldest unpublished rows below the
\* retry ceiling, at most batch_size, by created_at (rows are stored in
\* creation order)
select_batch(rows) == SelectFrom(rows, 1, batch_size)

\* Producer.produce + flush on the bus
produce(bus, event, outcome) ==
    IF outcome = "ack"
    THEN Append(bus, [key |-> event.aggregate_id, value |-> event.payload])
    ELSE bus

\* _publish_event after a send that did not raise: the row is marked
\* published whatever the delivery report said (_delivery_callback only logs)
mark_published(event, outcome, t) ==
    [event EXCEPT !.published = TRUE, !.published_at = Some(t), !.error_message = None]

\* Mutant: a failure is logged on the row but not counted
record_failure_not_counted(event, error_msg) ==
    [event EXCEPT !.error_message = Some(error_msg)]

\* _handle_publish_failure, without its commit
record_failure(event, error_msg) ==
    [event EXCEPT !.retry_count = @ + 1, !.error_message = Some(error_msg)]

\* One iteration of the for loop of _poll_and_publish on the cycle state
\* S = [session, committed, cb, bus, aborted, unused]: session is the ORM
\* session's view of outbox_events, committed the durable table, aborted
\* whether an exception left the loop, unused whether a bus outcome was chosen
\* for a send that was not made.
publish_one(S, id, outcome, t) ==
    LET gate == call_gate(S.cb, t)
        event == S.session[id]
    IN  IF ~gate.pass
        THEN LET sess == [S.session EXCEPT ![id] = record_failure(event, "Circuit breaker is OPEN")]
             IN  IF outcome = "abort"
                 THEN [S EXCEPT !.aborted = TRUE]
                 ELSE [S EXCEPT !.session = sess, !.committed = sess,
                                !.unused = @ \/ outcome # "ack"]
        ELSE IF outcome \in {"raise", "abort"}
        THEN LET sess == [S.session EXCEPT ![id] = record_failure(event, "KafkaException")]
             IN  IF outcome = "abort"
                 THEN [S EXCEPT !.cb = on_failure(gate.cb, t), !.aborted = TRUE]
                 ELSE [S EXCEPT !.session = sess, !.committed = sess,
                                !.cb = on_failure(gate.cb, t)]
        ELSE [S EXCEPT !.session = [S.session EXCEPT ![id] = mark_published(event, outcome, t)],
                       !.bus = produce(S.bus, event, outcome),
                       !.cb = on_success(gate.cb)]

RECURSIVE publish_batch(_, _, _, _, _)
publish_batch(S, events, k, oc, t) ==
    IF k > Len(events) THEN S
    ELSE IF S.aborted
         THEN publish_batch([S EXCEPT !.unused = @ \/ oc[k] # "ack"], events, k + 1, oc, t)
         ELSE publish_batch(publish_one(S, events[k], oc[k], t), events, k + 1, oc, t)

\* The final db.commit() of the cycle; when it raises, or when an exception
\* left the loop before it, the session is rolled back to what was last
\* committed
cycle_commit(S, commit_ok) ==
    IF commit_ok /\ ~S.aborted THEN [S EXCEPT !.committed = S.session] ELSE S

\* Failures among the outcomes of a cycle: "abort" is a bus and a database
\* failure
FaultCount(oc) ==
    Cardinality({k \in DOMAIN oc : oc[k] # "ack"}) + Cardinality({k \in DOMAIN oc : oc[k] = "abort"})

\* OutboxPublisher._poll_and_publish: one batch cycle
PollAndPublish ==
    LET events == select_batch(outbox_events)
    IN  /\ events # <<>>
        /\ \E oc \in [1..Len(events) -> SendOutcomes], commit_ok \in BOOLEAN :
            LET cost == FaultCount(oc) + (IF commit_ok THEN 0 ELSE 1)
                S0 == [session |-> outbox_events, committed |-> outbox_events,
                       cb |-> circuit_breaker, bus |-> topicSubmitted, aborted |-> FALSE,
                       unused |-> FALSE]
            IN  /\ cost <= faults
                /\ \E S \in {cycle_commit(publish_batch(S0, events, 1, oc, now), commit_ok)} :
                      /\ ~S.unused
                      /\ S.aborted => commit_ok
                      /\ Len(S.bus) <= MaxTopicLen
                      \* messages of rows left unpublished are sent again: room is kept
                      /\ (commit_ok /\ ~S.aborted) \/
                            Len(S.bus) + NumApps
                              - Cardinality({i \in DOMAIN S.committed : S.committed[i].published})
                                <= MaxTopicLen
                      /\ faults' = faults - cost
                      /\ outbox_events' = S.committed
                      /\ circuit_breaker' = S.cb
                      /\ topicSubmitted' = S.bus
        /\ UNCHANGED <<fnVars, max_update_retries, runVars, applications, audit_log, processed_messages, topicReports, now,
                       batch_size, publishers, creditVars, decisionVars, histVars>>

\* The UPDATE the ORM flushes for one row: the columns the session changed
\* since it loaded the row, WHERE id = :id
flush_row(stored, loaded, changed) ==
    [f \in DOMAIN stored |-> IF changed[f] # loaded[f] THEN changed[f] ELSE stored[f]]

\* Instance p runs the SELECT of a batch cycle: its session loads the rows
PublisherSelect(p) ==
    /\ publishers[p].running
    /\ publishers[p].pc = "idle"
    /\ select_batch(outbox_events) # <<>>
    /\ publishers' = [publishers EXCEPT ![p].pc = "loaded",
                                        ![p].events = select_batch(outbox_events),
                                        ![p].loaded = outbox_events]
    /\ UNCHANGED <<fnVars, max_update_retries, runVars, dbVars, busVars, circuit_breaker, batch_size, now, creditVars,
                   decisionVars, histVars, faults>>

\* Instance p runs the rest of the cycle on the rows it loaded: the for loop
\* and the commits, which write the changed columns of its rows to the store
PublisherPublish(p) ==
    /\ publishers[p].pc = "loaded"
    /\ \E oc \in [1..Len(publishers[p].events) -> SendOutcomes], commit_ok \in BOOLEAN :
          LET cost == FaultCount(oc) + (IF commit_ok THEN 0 ELSE 1)
              S0 == [session |-> publishers[p].loaded, committed |-> publishers[p].loaded,
                     cb |-> publishers[p].cb, bus |-> topicSubmitted, aborted |-> FALSE,
                     unused |-> FALSE]
          IN  /\ cost <= faults
              /\ \E S \in {cycle_commit(publish_batch(S0, publishers[p].events, 1, oc, now),
                                         commit_ok)} :
                    /\ ~S.unused
                    /\ S.aborted => commit_ok
                    /\ Len(S.bus) <= MaxTopicLen
                    /\ faults' = faults - cost
                    /\ outbox_events' =
                          [i \in DOMAIN outbox_events |->
                              IF i \in DOMAIN S.committed
                              THEN flush_row(outbox_events[i], publishers[p].loaded[i],
                                             S.committed[i])
                              ELSE outbox_events[i]]
                    /\ topicSubmitted' = S.bus
                    /\ publishers' = [publishers EXCEPT ![p].pc = "idle", ![p].cb = S.cb,
                                                        ![p].events = <<>>,
                                                        ![p].loaded = <<>>]
    /\ UNCHANGED <<fnVars, max_update_retries, runVars, applications, audit_log, processed_messages, topicReports, circuit_breaker,
                   batch_size, now, creditVars, decisionVars, histVars>>

\* OutboxPublisher.stop(): the flag is cleared, wherever the loop is
PublisherStop(p) ==
    /\ publishers[p].running
    /\ publishers' = [publishers EXCEPT ![p].running = FALSE,
                                        ![p].stopped_at = publishers[p].pc]
    /\ UNCHANGED <<fnVars, max_update_retries, runVars, dbVars, busVars, circuit_breaker, batch_size, now, creditVars,
                   decisionVars, histVars, faults>>

\* start(): after the sleep the loop condition is false; the finally clause
\* runs _shutdown, which flushes the producer
PublisherExit(p) ==
    /\ publishers[p].pc = "idle"
    /\ ~publishers[p].running
    /\ ~publishers[p].exited
    /\ publishers' = [publishers EXCEPT ![p].exited = TRUE, ![p].flushed = TRUE,
                                        ![p].exit_by = "loop condition"]
    /\ UNCHANGED <<fnVars, max_update_retries, runVars, dbVars, busVars, circuit_breaker, batch_size, now, creditVars,
                   decisionVars, histVars, faults>>

\* Mutant: the cancellation is raised wherever the task is, the rows the
\* session loaded are dropped
PublisherCancelAnywhere(p) ==
    /\ ~publishers[p].running
    /\ ~publishers[p].exited
    /\ publishers' = [publishers EXCEPT ![p].exited = TRUE, ![p].flushed = TRUE,
                                        ![p].exit_by = "CancelledError"]
    /\ UNCHANGED <<fnVars, max_update_retries, runVars, dbVars, busVars, circuit_breaker, batch_size, now, creditVars,
                   decisionVars, histVars, faults>>

\* lifespan, after stop(): publisher_task.cancel().  CancelledError is raised
\* where the task is suspended; _poll_and_publish awaits nothing, so that is
\* the sleep between two cycles.  start() catches it and runs _shutdown.
PublisherCancel(p) ==
    /\ publishers[p].pc = "idle"
    /\ ~publishers[p].running
    /\ ~publishers[p].exited
    /\ publishers' = [publishers EXCEPT ![p].exited = TRUE, ![p].flushed = TRUE,
                                        ![p].exit_by = "CancelledError"]
    /\ UNCHANGED <<fnVars, max_update_retries, runVars, dbVars, busVars, circuit_breaker, batch_size, now, creditVars,
                   decisionVars, histVars, faults>>

\* Wall-clock time passes
Tick ==
    /\ now + TickStep <= MaxTime
    /\ now' = now + TickStep
    /\ UNCHANGED <<fnVars, max_update_retries, runVars, dbVars, busVars, circuit_breaker, batch_size, publishers, creditVars,
                   decisionVars, histVars, faults>>

\* The publisher loop sleeps through the open timeout of its breaker
Wait ==
    /\ now + Timeout <= MaxWaitTime
    /\ now' = now + Timeout
    /\ UNCHANGED <<fnVars, max_update_retries, runVars, dbVars, busVars, circuit_breaker, batch_size, publishers, creditVars,
                   decisionVars, histVars, faults>>

(***************************************************************************)
(* The bus as the consumers see it                                         *)
(***************************************************************************)
\* The message at a (0-based) offset of a topic's partition
MessageAt(topic, offset) == topic[offset + 1]

\* message_id = f"{application_id}:{topic}:{partition}:{offset}"
message_id(application_id, topic, partition, offset) ==
    <<application_id, topic, partition, offset>>

\* is_already_processed: SELECT 1 FROM processed_messages WHERE message_id = ...
is_already_processed(ledger, mid) == \E r \in ledger : r.message_id = mid

\* The row mark_as_processed inserts
LedgerRow(mid, topic, partition, offset, group) ==
    [message_id |-> mid, topic_name |-> topic, partition_num |-> partition,
     offset_num |-> offset, consumer_group |-> group]

\* A message value is the dict json.dumps encoded, or bytes that json.loads
\* rejects with JSONDecodeError
InvalidJson == [invalid_json |-> TRUE]
json_loads_ok(value) == "invalid_json" \notin DOMAIN value

\* An application id no row of applications has
UnknownApplicationId == NumApps + 1

\* Messages a producer other than the pipeline's puts on the topics
ForeignSubmissions == {InvalidJson}
ForeignReports == {InvalidJson,
                   [application_id |-> 1],
                   [application_id |-> UnknownApplicationId, cibil_score |-> 700]}

(***************************************************************************)
(* credit-service: CibilService                                            *)
(***************************************************************************)
\* Mutant: a test PAN is mapped to a score above the CIBIL range
TestPanScoresAboveRange == [p \in {"ABCDE1234F", "FGHIJ5678K"} |->
                              IF p = "ABCDE1234F" THEN 950 ELSE 610]

TestPanScores == [p \in {"ABCDE1234F", "FGHIJ5678K"} |->
                    IF p = "ABCDE1234F" THEN 790 ELSE 610]

\* str.upper() on the loan types the payloads of the model carry
upper(s) == CASE s = "personal" -> "PERSONAL"
              [] s = "Home" -> "HOME"
              [] OTHER -> s

\* CibilService._generate_seed: the first 8 bytes of the SHA-256 digest of the
\* id, a fixed function of the id (the digest is not computed; id 0 stands
\* for the empty string of a missing id)
generate_seed(application_id) == application_id * 7 + 3

\* The generator of module random, shared by every caller in a process: the
\* seed it was last given and the values drawn since
NewGenerator(entropy) == [seed |-> entropy, draws |-> 0]

\* Mutant: random.seed leaves the generator as it is
random_seed_ignored(generator, seed) == generator

\* random.seed(seed)
random_seed(generator, seed) == [seed |-> seed, draws |-> 0]

\* random.randint(-5, 5): the value drawn and the generator afterwards
random_randint(generator) ==
    [value |-> ((generator.seed + 4 * generator.draws) % 11) - 5,
     generator |-> [generator EXCEPT !.draws = @ + 1]]

\* Mutant: an income of exactly 75000 counts as high
income_adjustment_inclusive(monthly_income) ==
    IF monthly_income >= 75000 THEN 40
    ELSE IF monthly_income < 30000 THEN 0 - 20 ELSE 0

\* Lines 65-69.  float() of the income is compared with whole numbers, which
\* gives what the comparison of the decimal numbers gives
income_adjustment(monthly_income) ==
    IF monthly_income > 75000 THEN 40
    ELSE IF monthly_income < 30000 THEN 0 - 20 ELSE 0

\* Lines 72-76
loan_type_adjustment(loan_type) ==
    IF upper(loan_type) = "PERSONAL" THEN 0 - 10
    ELSE IF upper(loan_type) = "HOME" THEN 10 ELSE 0

\* CibilService.calculate_score called in a process whose generator is in
\* state `generator`: the score returned and the generator left behind
calculate_score_call(application_data, generator) ==
    LET pan_number == Get(application_data, "pan_number", "")
        monthly_income == Get(application_data, "monthly_income_inr", 0)
        loan_type == Get(application_data, "loan_type", "")
        application_id == Get(application_data, "application_id", 0)
        drawn == random_randint(random_seed(generator, generate_seed(application_id)))
        score == BaseScore + income_adjustment(monthly_income)
                 + loan_type_adjustment(loan_type) + drawn.value
    IN  IF pan_number \in DOMAIN TestPanScores
        THEN [score |-> TestPanScores[pan_number], generator |-> generator]
        ELSE [score |-> Max(300, Min(900, score)), generator |-> drawn.generator]

\* CibilService.calculate_score as the Scoring Worker calls it; the generator
\* of the worker process is not a variable of the pipeline
calculate_score(application_data) ==
    calculate_score_call(application_data, NewGenerator(0)).score

\* CibilService.get_credit_report (the timestamp is left out)
get_credit_report(application_data) ==
    [application_id |-> Get(application_data, "application_id", 0),
     pan_number |-> Get(application_data, "pan_number", ""),
     cibil_score |-> calculate_score(application_data)]

(***************************************************************************)
(* credit-service: CreditServiceConsumer                                   *)
(***************************************************************************)
\* Lines 185-189: the PAN is decrypted when the payload has the key pan_number
decode_application(value) ==
    IF "pan_number" \in DOMAIN value /\ value.pan_number # ""
    THEN [value EXCEPT !.pan_number = decrypt_pan_from_kafka(value.pan_number)]
    ELSE value

\* Lines 196-201: the PAN of the report is re-encrypted when it is set
encode_report(report) ==
    IF report.pan_number # ""
    THEN [report EXCEPT !.pan_number = encrypt_pan_for_kafka(report.pan_number)]
    ELSE report

\* Where an attempt of process_message ends:
\*   "fail_before_publish"  an exception before publish_credit_report returns
\*                          (database error, decryption error, produce() raises)
\*   "fail_before_commit"   an exception in mark_as_processed or db.commit()
\*   "fail_offset_commit"   consumer.commit() raises after db.commit()
\*   "ok"                   no exception
CreditOutcomes == {"fail_before_publish", "fail_before_commit", "fail_offset_commit", "ok"}
\* publish_credit_report: produce() + poll(0); the delivery report comes later
\* and _delivery_callback only logs it
DeliveryOutcomes == {"ack", "nack"}

\* Mutant: a message found in the ledger is scored and published again
credit_process_message_republish(R, offset, outcome, delivery) ==
    LET value == MessageAt(topicSubmitted, offset).value
        application_id == Get(value, "application_id", 0)
        mid == message_id(application_id, SubmittedTopic, 0, offset)
        report == encode_report(get_credit_report(decode_application(value)))
        published == IF delivery = "ack"
                     THEN Append(R.reports, [key |-> report.application_id, value |-> report,
                                             cause |-> offset])
                     ELSE R.reports
        marked == R.ledger \cup {LedgerRow(mid, SubmittedTopic, 0, offset, CreditGroup)}
    IN  IF ~json_loads_ok(value) THEN R
        ELSE IF is_already_processed(R.ledger, mid)
        THEN [R EXCEPT !.reports = published, !.committed = offset + 1]
        ELSE IF outcome = "fail_before_publish" THEN R
        ELSE IF outcome = "fail_before_commit" THEN [R EXCEPT !.reports = published]
        ELSE IF outcome = "fail_offset_commit"
             THEN [R EXCEPT !.reports = published, !.ledger = marked]
        ELSE [R EXCEPT !.reports = published, !.ledger = marked,
                       !.committed = offset + 1, !.acked = @ \cup {mid}]

\* Mutant: the offset is committed before mark_as_processed and db.commit()
credit_process_message_early_ack(R, offset, outcome, delivery) ==
    LET value == MessageAt(topicSubmitted, offset).value
        application_id == Get(value, "application_id", 0)
        mid == message_id(application_id, SubmittedTopic, 0, offset)
        report == encode_report(get_credit_report(decode_application(value)))
        published == IF delivery = "ack"
                     THEN Append(R.reports, [key |-> report.application_id, value |-> report,
                                             cause |-> offset])
                     ELSE R.reports
        marked == R.ledger \cup {LedgerRow(mid, SubmittedTopic, 0, offset, CreditGroup)}
    IN  IF ~json_loads_ok(value) THEN R
        ELSE IF is_already_processed(R.ledger, mid)
        THEN [R EXCEPT !.committed = offset + 1]
        ELSE IF outcome = "fail_before_publish" THEN R
        ELSE IF outcome = "fail_before_commit"
             THEN [R EXCEPT !.reports = published, !.committed = offset + 1,
                            !.acked = @ \cup {mid}]
        ELSE [R EXCEPT !.reports = published, !.ledger = marked,
                       !.committed = offset + 1, !.acked = @ \cup {mid}]

\* CreditServiceConsumer.process_message on the message at `offset`; R is
\* [ledger, reports, committed, acked].  A report on the bus carries, as history,
\* the offset of the submission message it was produced for (cause).
credit_process_message(R, offset, outcome, delivery) ==
    LET value == MessageAt(topicSubmitted, offset).value
        application_id == Get(value, "application_id", 0)
        mid == message_id(application_id, SubmittedTopic, 0, offset)
        report == encode_report(get_credit_report(decode_application(value)))
        published == IF delivery = "ack"
                     THEN Append(R.reports, [key |-> report.application_id, value |-> report,
                                             cause |-> offset])
                     ELSE R.reports
        marked == R.ledger \cup {LedgerRow(mid, SubmittedTopic, 0, offset, CreditGroup)}
    IN  IF ~json_loads_ok(value) THEN R
        ELSE IF is_already_processed(R.ledger, mid)
        THEN [R EXCEPT !.committed = offset + 1]
        ELSE IF outcome = "fail_before_publish" THEN R
        ELSE IF outcome = "fail_before_commit" THEN [R EXCEPT !.reports = published]
        ELSE IF outcome = "fail_offset_commit"
             THEN [R EXCEPT !.reports = published, !.ledger = marked]
        ELSE [R EXCEPT !.reports = published, !.ledger = marked,
                       !.committed = offset + 1, !.acked = @ \cup {mid}]

\* One iteration of CreditServiceConsumer.start: poll() and process_message
CreditConsume(outcome, delivery) ==
    /\ running.credit
    /\ cPos < Len(topicSubmitted)
    /\ LET R0 == [ledger |-> processed_messages, reports |-> topicReports,
                  committed |-> cCommitted, acked |-> ack_log]
           R == credit_process_message(R0, cPos, outcome, delivery)
           cost == (IF outcome = "ok" THEN 0 ELSE 1) + (IF delivery = "ack" THEN 0 ELSE 1)
           mid == message_id(Get(MessageAt(topicSubmitted, cPos).value, "application_id", 0),
                             SubmittedTopic, 0, cPos)
       IN  /\ (is_already_processed(processed_messages, mid) \/ outcome = "fail_before_publish")
                 => delivery = "ack"
           /\ ~json_loads_ok(MessageAt(topicSubmitted, cPos).value)
                 => outcome = "ok" /\ delivery = "ack"
           /\ is_already_processed(processed_messages, mid) => outcome = "ok"
           /\ cost <= faults
           /\ Len(R.reports) <= MaxTopicLen
           /\ faults' = faults - cost
           /\ processed_messages' = R.ledger
           /\ topicReports' = R.reports
           /\ cCommitted' = R.committed
           /\ ack_log' = R.acked
    /\ cPos' = cPos + 1
    /\ UNCHANGED <<fnVars, max_update_retries, runVars, applications, audit_log, outbox_events, topicSubmitted, pubVars,
                   decisionVars, update_log, rollback_log, breaker_log>>

\* The consumer process is restarted (crash, deployment, rebalance): it
\* resumes from the committed offset of its group
CreditRestart ==
    /\ faults > 0
    /\ cPos # cCommitted \/ ~running.credit
    /\ cPos' = cCommitted
    /\ running' = [running EXCEPT !.credit = TRUE]
    /\ faults' = faults - 1
    /\ UNCHANGED <<fnVars, max_update_retries, requests, signal_log, retry_log, dbVars, busVars, pubVars, cCommitted,
                   decisionVars, histVars>>

(***************************************************************************)
(* decision-service: DecisionService                                       *)
(***************************************************************************)
\* DecisionService.make_decision, i.e. evaluate + calculate_max_approved_amount,
\* on the floats lines 46-47 and 126 make of monthly_income_inr and
\* loan_amount_inr
make_decision(monthly_income, loan_amount, cibil_score) ==
    LET required_monthly_income == float_div(loan_amount, LoanTermMonths)
        status == IF cibil_score < MinimumCibilScore THEN "REJECTED"
                  ELSE IF float_gt(monthly_income, required_monthly_income)
                  THEN "PRE_APPROVED"
                  ELSE "MANUAL_REVIEW"
    IN  [status |-> status,
         decision_reason |-> <<status, cibil_score>>,
         cibil_score |-> cibil_score,
         max_approved_amount |-> IF status = "REJECTED" THEN None
                                 ELSE Some(float_mul(monthly_income, LoanTermMonths))]

(***************************************************************************)
(* decision-service: ApplicationRepository                                 *)
(***************************************************************************)
\* Mutant: an application that is already decided is sent to manual review
updated_row_reopen(row, decision) ==
    [row EXCEPT !.status = IF row.status = "PENDING" THEN decision.status
                           ELSE "MANUAL_REVIEW",
                !.credit_score = Some(decision.cibil_score),
                !.decision_reason = Some(decision.decision_reason),
                !.max_approved_amount = decision.max_approved_amount,
                !.version = @ + 1]

\* Mutant: the UPDATE also sets requested_amount to 0
updated_row_resets_amount(row, decision) ==
    [row EXCEPT !.status = decision.status,
                !.credit_score = Some(decision.cibil_score),
                !.decision_reason = Some(decision.decision_reason),
                !.max_approved_amount = decision.max_approved_amount,
                !.requested_amount = 0,
                !.version = @ + 1]

\* The row UPDATE applications SET ... version = version + 1 writes
updated_row(row, decision) ==
    [row EXCEPT !.status = decision.status,
                !.credit_score = Some(decision.cibil_score),
                !.decision_reason = Some(decision.decision_reason),
                !.max_approved_amount = decision.max_approved_amount,
                !.version = @ + 1]

\* Mutant: the WHERE clause does not compare the version
update_matches_any_version(apps, application_id, expected_version) ==
    application_id \in DOMAIN apps

\* update_status_with_version: the rows matched by
\* WHERE application_id = :app_id AND version = :expected_version
update_matches(apps, application_id, expected_version) ==
    /\ application_id \in DOMAIN apps
    /\ apps[application_id].version = expected_version

(***************************************************************************)
(* decision-service: DecisionServiceConsumer, one instance per w           *)
(***************************************************************************)
DValue(w) == MessageAt(topicReports, dMsg[w]).value
DAppId(w) == Get(DValue(w), "application_id", 0)
DMessageId(w) == message_id(DAppId(w), ReportsTopic, 0, dMsg[w])

\* Lines 193-204: the decision for the message in process
DDecision(w) ==
    LET application == applications[DAppId(w)]
        annual_income == IF application.annual_income = None THEN FloatZero
                         ELSE float_of_int(application.annual_income[1])
        monthly_income == IF annual_income = FloatZero THEN FloatZero
                          ELSE float_div(annual_income, 12)
    IN  make_decision(monthly_income, float_of_int(application.requested_amount),
                      DValue(w).cibil_score)

\* A row of applications is locked by the uncommitted UPDATE of another session
RowLockedByOther(w, application_id) ==
    \E v \in DWorkers \ {w} : dTx[v] # None /\ dTx[v][1].application_id = application_id

\* consumer.commit(message=msg): accepted from the instance the partition is
\* assigned to
commit_offset(w, offset) == IF w = dOwner THEN offset + 1 ELSE dCommitted

\* Mutant: a score report whose Application row is missing raises like any
\* other error
classify_report_missing_row_raises(ledger, apps, value, offset) ==
    IF ~json_loads_ok(value) THEN "raise"
    ELSE IF is_already_processed(ledger, message_id(Get(value, "application_id", 0),
                                                    ReportsTopic, 0, offset))
    THEN "skip"
    ELSE IF "cibil_score" \notin DOMAIN value THEN "skip"
    ELSE IF Get(value, "application_id", 0) \notin DOMAIN apps THEN "raise"
    ELSE "decide"

\* Lines 150-189: what process_message does with a message before the
\* decision.  "raise": json.loads raises, the except branch logs and returns;
\* "skip": the offset is committed and process_message returns (the message
\* is in the ledger, has no cibil_score, or names no Application row);
\* "decide": the message goes on to the decision
classify_report(ledger, apps, value, offset) ==
    IF ~json_loads_ok(value) THEN "raise"
    ELSE IF is_already_processed(ledger, message_id(Get(value, "application_id", 0),
                                                    ReportsTopic, 0, offset))
    THEN "skip"
    ELSE IF "cibil_score" \notin DOMAIN value THEN "skip"
    ELSE IF Get(value, "application_id", 0) \notin DOMAIN apps THEN "skip"
    ELSE "decide"

\* update_with_retry, `for attempt in range(max_retries)`: a first attempt is
\* made when max_retries > 0; an empty range skips the loop and the function
\* returns False (line 230), which process_message does not look at before it
\* goes on to mark_as_processed and db.commit()
update_with_retry_enters(max_retries) == IF max_retries > 0 THEN "read" ELSE "commit"

\* poll() and process_message up to the decision (lines 150-209)
DecisionPoll(w) ==
    /\ running.decision[w]
    /\ w = dOwner
    /\ dPc[w] = "idle"
    /\ dPos[w] < Len(topicReports)
    /\ dPos' = [dPos EXCEPT ![w] = @ + 1]
    /\ LET offset == dPos[w]
           value == MessageAt(topicReports, offset).value
           todo == classify_report(processed_messages, applications, value, offset)
       IN  IF todo = "skip"
           THEN /\ dCommitted' = commit_offset(w, offset)
                /\ UNCHANGED <<dPc, dMsg, dAttempt>>
           ELSE IF todo = "raise"
           THEN UNCHANGED <<dCommitted, dPc, dMsg, dAttempt>>
           ELSE /\ dPc' = [dPc EXCEPT ![w] = update_with_retry_enters(max_update_retries)]
                /\ dMsg' = [dMsg EXCEPT ![w] = offset]
                /\ dAttempt' = [dAttempt EXCEPT ![w] = 0]
                /\ UNCHANGED dCommitted
    /\ UNCHANGED <<fnVars, max_update_retries, runVars, dbVars, busVars, pubVars, creditVars, dOwner, dTx, dVersion,
                   histVars, faults>>

\* update_with_retry: read current application and version (lines 192-197)
DecisionRead(w) ==
    /\ running.decision[w]
    /\ dPc[w] = "read"
    /\ dVersion' = [dVersion EXCEPT ![w] = applications[DAppId(w)].version]
    /\ dPc' = [dPc EXCEPT ![w] = "update"]
    /\ UNCHANGED <<fnVars, max_update_retries, runVars, dbVars, busVars, pubVars, creditVars, dOwner, dPos, dCommitted, dMsg,
                   dTx, dAttempt, histVars, faults>>

\* Mutant: a conflict is retried without limit
retry_allowed_always(attempt) == TRUE

\* update_with_retry, except branch: `if attempt < max_retries - 1: continue`
retry_allowed(attempt) == attempt < max_update_retries - 1

\* update_status_with_version (lines 109-150) and the except branch of
\* update_with_retry (lines 221-228).  The statement waits while another
\* session holds the row.
DecisionUpdate(w) ==
    /\ running.decision[w]
    /\ dPc[w] = "update"
    /\ ~RowLockedByOther(w, DAppId(w))
    /\ IF update_matches(applications, DAppId(w), dVersion[w])
       THEN /\ dTx' = [dTx EXCEPT ![w] =
                         Some([application_id |-> DAppId(w),
                               expected_version |-> dVersion[w],
                               message_id |-> DMessageId(w),
                               row |-> updated_row(applications[DAppId(w)], DDecision(w))])]
            /\ dPc' = [dPc EXCEPT ![w] = "commit"]
            /\ UNCHANGED <<dAttempt, retry_log>>
       ELSE IF retry_allowed(dAttempt[w])
            THEN /\ dAttempt' = [dAttempt EXCEPT ![w] = @ + 1]
                 /\ dPc' = [dPc EXCEPT ![w] = "read"]
                 /\ UNCHANGED <<dTx, retry_log>>
            ELSE \* OptimisticLockError: rollback, the offset is not committed
                 /\ dPc' = [dPc EXCEPT ![w] = "idle"]
                 /\ dTx' = [dTx EXCEPT ![w] = None]
                 /\ retry_log' = retry_log \cup
                       {[instance |-> w, message_id |-> DMessageId(w),
                         attempts |-> dAttempt[w] + 1]}
                 /\ UNCHANGED dAttempt
    /\ UNCHANGED <<fnVars, max_update_retries, requests, running, signal_log, dbVars, busVars, pubVars, creditVars, dOwner,
                   dPos, dCommitted, dMsg, dVersion, histVars, faults>>

\* db.commit() on applications: the UPDATE of the session, if it made one
session_commit(apps, tx) ==
    IF tx = None THEN apps
    ELSE [apps EXCEPT ![tx[1].application_id] = tx[1].row]

\* History: the UPDATE statement the commit of the session of w makes durable
session_updates(w) ==
    IF dTx[w] = None THEN {}
    ELSE {[message_id |-> DMessageId(w), application_id |-> DAppId(w),
           expected_version |-> dTx[w][1].expected_version,
           old_version |-> applications[DAppId(w)].version,
           new_version |-> dTx[w][1].row.version]}

\* Mutant: processed_messages.message_id is not unique
DecisionCommitNoUnique(w) ==
    /\ running.decision[w]
    /\ dPc[w] = "commit"
    /\ applications' = session_commit(applications, dTx[w])
    /\ processed_messages' = processed_messages \cup
          {LedgerRow(DMessageId(w), ReportsTopic, 0, dMsg[w], DecisionGroup)}
    /\ update_log' = update_log \cup session_updates(w)
    /\ dPc' = [dPc EXCEPT ![w] = "ack"]
    /\ dTx' = [dTx EXCEPT ![w] = None]
    /\ UNCHANGED <<fnVars, max_update_retries, runVars, audit_log, outbox_events, busVars, pubVars, creditVars, dOwner, dPos,
                   dCommitted, dMsg, dAttempt, dVersion, ack_log, rollback_log, breaker_log, faults>>

\* Mutant: the instance whose INSERT hits the unique message_id goes on to
\* commit the offset
DecisionCommitLoserAcks(w) ==
    /\ running.decision[w]
    /\ dPc[w] = "commit"
    /\ IF is_already_processed(processed_messages, DMessageId(w))
       THEN /\ rollback_log' = rollback_log \cup {<<w, DMessageId(w)>>}
            /\ UNCHANGED <<applications, processed_messages, update_log>>
       ELSE /\ applications' = session_commit(applications, dTx[w])
            /\ processed_messages' = processed_messages \cup
                 {LedgerRow(DMessageId(w), ReportsTopic, 0, dMsg[w], DecisionGroup)}
            /\ update_log' = update_log \cup session_updates(w)
            /\ UNCHANGED rollback_log
    /\ dPc' = [dPc EXCEPT ![w] = "ack"]
    /\ dTx' = [dTx EXCEPT ![w] = None]
    /\ UNCHANGED <<fnVars, max_update_retries, runVars, audit_log, outbox_events, busVars, pubVars, creditVars, dOwner, dPos,
                   dCommitted, dMsg, dAttempt, dVersion, ack_log, breaker_log, faults>>

\* mark_as_processed and db.commit() (lines 221-225).  message_id is unique:
\* the INSERT fails when the row is there, and the session is rolled back.
DecisionCommit(w) ==
    /\ running.decision[w]
    /\ dPc[w] = "commit"
    /\ IF is_already_processed(processed_messages, DMessageId(w))
       THEN /\ dPc' = [dPc EXCEPT ![w] = "idle"]
            /\ rollback_log' = rollback_log \cup {<<w, DMessageId(w)>>}
            /\ UNCHANGED <<applications, processed_messages, update_log>>
       ELSE /\ applications' = session_commit(applications, dTx[w])
            /\ processed_messages' = processed_messages \cup
                 {LedgerRow(DMessageId(w), ReportsTopic, 0, dMsg[w], DecisionGroup)}
            /\ update_log' = update_log \cup session_updates(w)
            /\ dPc' = [dPc EXCEPT ![w] = "ack"]
            /\ UNCHANGED rollback_log
    /\ dTx' = [dTx EXCEPT ![w] = None]
    /\ UNCHANGED <<fnVars, max_update_retries, runVars, audit_log, outbox_events, busVars, pubVars, creditVars, dOwner, dPos,
                   dCommitted, dMsg, dAttempt, dVersion, ack_log, breaker_log, faults>>

\* consumer.commit(message=msg) after db.commit() (line 228)
DecisionAck(w) ==
    /\ running.decision[w]
    /\ dPc[w] = "ack"
    /\ dCommitted' = commit_offset(w, dMsg[w])
    /\ ack_log' = IF w = dOwner THEN ack_log \cup {DMessageId(w)} ELSE ack_log
    /\ dPc' = [dPc EXCEPT ![w] = "idle"]
    /\ UNCHANGED <<fnVars, max_update_retries, runVars, dbVars, busVars, pubVars, creditVars, dOwner, dPos, dMsg, dTx,
                   dAttempt, dVersion, update_log, rollback_log, breaker_log, faults>>

\* An exception inside process_message (database error, commit() of the offset
\* raising): the except branch rolls the session back, the loop goes on
DecisionFail(w) ==
    /\ running.decision[w]
    /\ dPc[w] # "idle"
    /\ faults > 0
    /\ faults' = faults - 1
    /\ dPc' = [dPc EXCEPT ![w] = "idle"]
    /\ dTx' = [dTx EXCEPT ![w] = None]
    /\ UNCHANGED <<fnVars, max_update_retries, runVars, dbVars, busVars, pubVars, creditVars, dOwner, dPos, dCommitted, dMsg,
                   dAttempt, dVersion, histVars>>

\* The instance owning the partition is restarted: its session is lost and it
\* resumes from the committed offset
DecisionRestart(w) ==
    /\ w = dOwner
    /\ faults > 0
    /\ dPc[w] # "idle" \/ dPos[w] # dCommitted \/ ~running.decision[w]
    /\ running' = [running EXCEPT !.decision[w] = TRUE]
    /\ faults' = faults - 1
    /\ dPc' = [dPc EXCEPT ![w] = "idle"]
    /\ dTx' = [dTx EXCEPT ![w] = None]
    /\ dPos' = [dPos EXCEPT ![w] = dCommitted]
    /\ UNCHANGED <<fnVars, max_update_retries, requests, signal_log, retry_log, dbVars, busVars, pubVars, creditVars, dOwner, dCommitted, dMsg,
                   dAttempt, dVersion, histVars>>

\* Rebalance: the partition moves to the other instance, which starts from the
\* committed offset; the former owner finishes the message it has in process
DecisionRebalance(w) ==
    /\ running.decision[w]
    /\ w # dOwner
    /\ dPc[w] = "idle"
    /\ faults > 0
    /\ faults' = faults - 1
    /\ dOwner' = w
    /\ dPos' = [dPos EXCEPT ![w] = dCommitted]
    /\ UNCHANGED <<fnVars, max_update_retries, runVars, dbVars, busVars, pubVars, creditVars, dCommitted, dPc, dMsg, dTx,
                   dAttempt, dVersion, histVars>>

(***************************************************************************)
(* Messages of other producers on the topics the workers subscribe to      *)
(***************************************************************************)
\* A foreign message is appended to the log of a topic
ProduceForeign(topic, value) ==
    /\ IF topic = SubmittedTopic
       THEN /\ value \in ForeignSubmissions
            /\ Len(topicSubmitted) < MaxTopicLen
            /\ topicSubmitted' = Append(topicSubmitted, [key |-> 0, value |-> value])
            /\ UNCHANGED topicReports
       ELSE /\ value \in ForeignReports
            /\ Len(topicReports) < MaxTopicLen
            /\ topicReports' = Append(topicReports, [key |-> 0, value |-> value,
                                                     cause |-> 0 - 1])
            /\ UNCHANGED topicSubmitted
    /\ UNCHANGED <<fnVars, max_update_retries, dbVars, pubVars, creditVars, decisionVars, histVars, runVars, faults>>

(***************************************************************************)
(* Shutdown signals (main.py of credit-service and decision-service)       *)
(***************************************************************************)
\* Where in its loop the main thread of the credit-service is when the
\* handler runs: in poll(), or inside process_message before
\* publish_credit_report, before db.commit(), before consumer.commit()
CreditSignalPoints == {"idle", "before_publish", "before_commit", "before_offset_commit"}

\* signal_handler: consumer.stop() and sys.exit(0).  SystemExit is raised at
\* the point the main thread has reached; `except Exception` does not catch
\* it, so process_message ends there as an attempt that fails at that point
signal_exit(at) ==
    IF at = "before_publish" THEN "fail_before_publish"
    ELSE IF at = "before_commit" THEN "fail_before_commit"
    ELSE "fail_offset_commit"

\* SIGINT/SIGTERM reaches the credit-service process
CreditSignal(at, delivery) ==
    /\ running.credit
    /\ running' = [running EXCEPT !.credit = FALSE]
    /\ IF at = "idle"
       THEN /\ delivery = "ack"
            /\ signal_log' = signal_log \cup
                  {[service |-> "credit-service", instance |-> 0, at |-> "idle",
                    interrupted |-> FALSE, offset |-> cPos]}
            /\ UNCHANGED <<processed_messages, topicReports, cPos, cCommitted, ack_log, faults>>
       ELSE /\ cPos < Len(topicSubmitted)
            /\ json_loads_ok(MessageAt(topicSubmitted, cPos).value)
            /\ ~is_already_processed(processed_messages,
                     message_id(Get(MessageAt(topicSubmitted, cPos).value, "application_id", 0),
                                SubmittedTopic, 0, cPos))
            /\ at = "before_publish" => delivery = "ack"
            /\ delivery = "nack" => faults > 0
            /\ LET R0 == [ledger |-> processed_messages, reports |-> topicReports,
                          committed |-> cCommitted, acked |-> ack_log]
                   R == credit_process_message(R0, cPos, signal_exit(at), delivery)
               IN  /\ Len(R.reports) <= MaxTopicLen
                   /\ processed_messages' = R.ledger
                   /\ topicReports' = R.reports
                   /\ cCommitted' = R.committed
                   /\ ack_log' = R.acked
                   /\ signal_log' = signal_log \cup
                         {[service |-> "credit-service", instance |-> 0, at |-> at,
                           interrupted |-> R.committed # cPos + 1, offset |-> cPos]}
            /\ cPos' = cPos + 1
            /\ faults' = IF delivery = "nack" THEN faults - 1 ELSE faults
    /\ UNCHANGED <<fnVars, max_update_retries, applications, audit_log, outbox_events, topicSubmitted, pubVars,
                   decisionVars, update_log, rollback_log, breaker_log, requests, retry_log>>

\* SIGINT/SIGTERM reaches decision-service instance w: SystemExit leaves
\* process_message at the step it has reached, the finally clause closes the
\* session and an open transaction is rolled back
DecisionSignal(w) ==
    /\ running.decision[w]
    /\ running' = [running EXCEPT !.decision[w] = FALSE]
    /\ signal_log' = signal_log \cup
          {[service |-> "decision-service", instance |-> w, at |-> dPc[w],
            interrupted |-> dPc[w] # "idle", offset |-> dMsg[w]]}
    /\ dPc' = [dPc EXCEPT ![w] = "idle"]
    /\ dTx' = [dTx EXCEPT ![w] = None]
    /\ UNCHANGED <<fnVars, max_update_retries, dbVars, busVars, pubVars, creditVars, dOwner, dPos, dCommitted, dMsg,
                   dAttempt, dVersion, histVars, requests, retry_log, faults>>

(***************************************************************************)
(* The pipeline                                                            *)
(***************************************************************************)
InitTables ==
    /\ applications = <<>>
    /\ audit_log = <<>>
    /\ outbox_events = <<>>
    /\ processed_messages = {}
    /\ topicSubmitted = <<>>
    /\ topicReports = <<>>
    /\ circuit_breaker = NewCircuitBreaker
    /\ now = 0
    /\ cPos = 0
    /\ cCommitted = 0
    /\ dOwner = 1
    /\ dPos = [w \in DWorkers |-> 0]
    /\ dCommitted = 0
    /\ dPc = [w \in DWorkers |-> "idle"]
    /\ dMsg = [w \in DWorkers |-> 0]
    /\ dTx = [w \in DWorkers |-> None]
    /\ dAttempt = [w \in DWorkers |-> 0]
    /\ dVersion = [w \in DWorkers |-> 0]
    /\ update_log = {}
    /\ ack_log = {}
    /\ rollback_log = {}
    /\ breaker_log = [last |-> "none", consecutive |-> 0, last_rejected |-> None]
    /\ publishers = [p \in Publishers |->
                       [pc |-> "idle", events |-> <<>>, loaded |-> <<>>,
                        cb |-> NewCircuitBreaker, running |-> TRUE,
                        stopped_at |-> "none", exited |-> FALSE, exit_by |-> "none",
                        flushed |-> FALSE]]
    /\ requests = [r \in Requests |-> [pc |-> "idle", pan |-> "", result |-> "none", message |-> ""]]
    /\ running = [credit |-> TRUE, decision |-> [w \in DWorkers |-> TRUE]]
    /\ signal_log = {}
    /\ retry_log = {}

\* Nobody calls calculate_score or make_decision outside the workers
InitCalls ==
    /\ scoring = [input |-> <<>>, generator |-> <<>>, calls |-> <<>>]
    /\ deciding = [monthly_income |-> 0, requested_amount |-> 0, cibil_score |-> 0,
                   decision |-> None]

Init ==
    /\ InitTables
    /\ InitCalls
    /\ max_update_retries = MaxUpdateRetries
    /\ batch_size = BatchSize
    /\ faults = MaxFaults

Next ==
    \/ \E pan \in PANs, amount \in Amounts, commit_ok \in BOOLEAN :
          CreateApplication(pan, amount, commit_ok)
    \/ PollAndPublish
    \/ \E outcome \in CreditOutcomes, delivery \in DeliveryOutcomes :
          CreditConsume(outcome, delivery)
    \/ CreditRestart
    \/ \E w \in DWorkers : DecisionPoll(w)
    \/ \E w \in DWorkers : DecisionRead(w)
    \/ \E w \in DWorkers : DecisionUpdate(w)
    \/ \E w \in DWorkers : DecisionCommit(w)
    \/ \E w \in DWorkers : DecisionAck(w)
    \/ \E w \in DWorkers : DecisionFail(w)
    \/ \E w \in DWorkers : DecisionRestart(w)
    \/ \E w \in DWorkers : DecisionRebalance(w)

Spec == Init /\ [][Next]_vars

\* Fair scheduling: the publisher loop and both consumer loops keep running
\* (start() of each worker); failures, restarts and rebalances are not forced,
\* and there are at most MaxFaults of them, so bus and database work from
\* some point on
Fairness ==
    /\ WF_vars(PollAndPublish)
    /\ WF_vars(\E outcome \in CreditOutcomes, delivery \in DeliveryOutcomes :
                  CreditConsume(outcome, delivery))
    /\ \A w \in DWorkers :
          /\ WF_vars(DecisionPoll(w))
          /\ WF_vars(DecisionRead(w))
          /\ WF_vars(DecisionUpdate(w))
          /\ WF_vars(DecisionCommit(w))
          /\ WF_vars(DecisionAck(w))

SpecLive == Init /\ [][Next]_vars /\ Fairness

(***************************************************************************)
(* The Outbox Publisher on its own, with wall-clock time and a bus that    *)
(* fails OutboxFaults times                                                *)
(***************************************************************************)
InitOutbox ==
    /\ InitTables
    /\ InitCalls
    /\ max_update_retries = MaxUpdateRetries
    /\ batch_size \in BatchSizes
    /\ faults = OutboxFaults

\* The publisher does not read the PAN: applications come with the PANs in
\* one order
NextOutbox ==
    \/ \E amount \in Amounts, commit_ok \in BOOLEAN :
          /\ \E p \in PANs : ~DuplicatePan(p)
          /\ CreateApplication(CHOOSE p \in PANs : ~DuplicatePan(p), amount, commit_ok)
    \/ PollAndPublish
    \/ Wait

\* OutboxPublisher.start: the loop runs a batch cycle every poll_interval
SpecOutbox == InitOutbox /\ [][NextOutbox]_vars /\ WF_vars(PollAndPublish)

(***************************************************************************)
(* The Outbox Publisher draining an outbox with several events per         *)
(* aggregate                                                               *)
(***************************************************************************)
NextEvents ==
    \/ \E pan \in PANs, amount \in Amounts, commit_ok \in BOOLEAN :
          CreateApplication(pan, amount, commit_ok)
    \/ \E a \in AppIds : WriteDomainEvent(a)
    \/ PollAndPublish

SpecEvents == Init /\ [][NextEvents]_vars

(***************************************************************************)
(* Several Outbox Publisher instances against one store                    *)
(***************************************************************************)
NextPublishers ==
    \/ \E pan \in PANs, amount \in Amounts, commit_ok \in BOOLEAN :
          CreateApplication(pan, amount, commit_ok)
    \/ \E p \in Publishers : PublisherSelect(p)
    \/ \E p \in Publishers : PublisherPublish(p)

SpecPublishers == Init /\ [][NextPublishers]_vars

(***************************************************************************)
(* Outbox Publisher instances that are stopped                             *)
(***************************************************************************)
NextStop ==
    \/ \E pan \in PANs, amount \in Amounts, commit_ok \in BOOLEAN :
          CreateApplication(pan, amount, commit_ok)
    \/ \E p \in Publishers : PublisherSelect(p)
    \/ \E p \in Publishers : PublisherPublish(p)
    \/ \E p \in Publishers : PublisherStop(p)
    \/ \E p \in Publishers : PublisherExit(p)
    \/ \E p \in Publishers : PublisherCancel(p)

SpecStop == Init /\ [][NextStop]_vars

(***************************************************************************)
(* The circuit breaker on its own: calls that succeed or fail, and time    *)
(***************************************************************************)
NextBreaker ==
    \/ \E ok \in BOOLEAN : BreakerCall(ok)
    \/ Tick

SpecBreaker == Init /\ [][NextBreaker]_vars

(***************************************************************************)
(* The API serving create_application calls side by side                   *)
(***************************************************************************)
NextCreate ==
    \/ \E r \in Requests, pan \in PANs : CreateCheck(r, pan)
    \/ \E r \in Requests, commit_ok \in BOOLEAN : CreateCommit(r, commit_ok)
    \/ \E r \in Requests : CreateReturn(r)

SpecCreate == Init /\ [][NextCreate]_vars

(***************************************************************************)
(* The pipeline with shutdown signals sent to the workers                  *)
(***************************************************************************)
NextShutdown ==
    \/ \E pan \in PANs, amount \in Amounts : CreateApplication(pan, amount, TRUE)
    \/ PollAndPublish
    \/ \E outcome \in CreditOutcomes, delivery \in DeliveryOutcomes :
          CreditConsume(outcome, delivery)
    \/ \E w \in DWorkers : DecisionPoll(w)
    \/ \E w \in DWorkers : DecisionRead(w)
    \/ \E w \in DWorkers : DecisionUpdate(w)
    \/ \E w \in DWorkers : DecisionCommit(w)
    \/ \E w \in DWorkers : DecisionAck(w)
    \/ \E at \in CreditSignalPoints, delivery \in DeliveryOutcomes : CreditSignal(at, delivery)
    \/ \E w \in DWorkers : DecisionSignal(w)

SpecShutdown == Init /\ [][NextShutdown]_vars

(***************************************************************************)
(* Decision Worker instances on a partition that holds several score       *)
(* reports of one application (the Scoring Worker having published the     *)
(* report again on each of its attempts)                                   *)
(***************************************************************************)
RECURSIVE credit_attempts(_, _)
\* n attempts of CreditServiceConsumer.process_message on offset 0: all but
\* the last fail between publish_credit_report and db.commit()
credit_attempts(R, n) ==
    IF n <= 1 THEN credit_process_message(R, 0, "ok", "ack")
    ELSE credit_attempts(credit_process_message(R, 0, "fail_before_commit", "ack"), n - 1)

\* One application submitted and scored; its report is on the bus n times
InitScored(n) ==
    /\ \E pan \in PANs :
          LET t == create_application_commit(<<>>, <<>>, <<>>, 1, pan, 500000, TRUE)
          IN  /\ applications = t.applications
              /\ audit_log = t.audit_log
              /\ outbox_events = <<mark_published(t.outbox_events[1], "ack", 0)>>
              /\ topicSubmitted = produce(<<>>, t.outbox_events[1], "ack")
    /\ LET R == credit_attempts([ledger |-> {}, reports |-> <<>>, committed |-> 0,
                                 acked |-> {}], n)
       IN  /\ processed_messages = R.ledger
           /\ topicReports = R.reports
           /\ cCommitted = R.committed
           /\ ack_log = R.acked
    /\ cPos = 1
    /\ circuit_breaker = NewCircuitBreaker
    /\ now = 0
    /\ dOwner = 1
    /\ dPos = [w \in DWorkers |-> 0]
    /\ dCommitted = 0
    /\ dPc = [w \in DWorkers |-> "idle"]
    /\ dMsg = [w \in DWorkers |-> 0]
    /\ dTx = [w \in DWorkers |-> None]
    /\ dAttempt = [w \in DWorkers |-> 0]
    /\ dVersion = [w \in DWorkers |-> 0]
    /\ update_log = {}
    /\ rollback_log = {}
    /\ breaker_log = [last |-> "none", consecutive |-> 0, last_rejected |-> None]
    /\ publishers = [p \in Publishers |->
                       [pc |-> "idle", events |-> <<>>, loaded |-> <<>>,
                        cb |-> NewCircuitBreaker, running |-> TRUE,
                        stopped_at |-> "none", exited |-> FALSE, exit_by |-> "none",
                        flushed |-> FALSE]]
    /\ requests = [r \in Requests |-> [pc |-> "idle", pan |-> "", result |-> "none",
                                       message |-> ""]]
    /\ running = [credit |-> TRUE, decision |-> [w \in DWorkers |-> TRUE]]
    /\ signal_log = {}
    /\ retry_log = {}
    /\ InitCalls
    /\ batch_size = BatchSize
    /\ faults = MaxFaults

InitRetry ==
    /\ InitScored(MaxTopicLen)
    /\ max_update_retries = MaxUpdateRetries

NextRetry ==
    \/ \E w \in DWorkers : DecisionPoll(w)
    \/ \E w \in DWorkers : DecisionRead(w)
    \/ \E w \in DWorkers : DecisionUpdate(w)
    \/ \E w \in DWorkers : DecisionCommit(w)
    \/ \E w \in DWorkers : DecisionAck(w)
    \/ \E w \in DWorkers : DecisionFail(w)
    \/ \E w \in DWorkers : DecisionRestart(w)
    \/ \E w \in DWorkers : DecisionRebalance(w)

SpecRetry == InitRetry /\ [][NextRetry]_vars

(***************************************************************************)
(* Decision Worker instances on the report of one application, for the     *)
(* values of the setting max_update_retries                                *)
(***************************************************************************)
UpdateRetrySettings == {0, 1, MaxUpdateRetries}

InitUpdate ==
    /\ InitScored(1)
    /\ max_update_retries \in UpdateRetrySettings

SpecUpdate == InitUpdate /\ [][NextRetry]_vars

(***************************************************************************)
(* Decision Worker instances on a partition that carries the report of an  *)
(* application and reports of other producers                              *)
(***************************************************************************)
InitReports ==
    /\ InitScored(1)
    /\ max_update_retries = MaxUpdateRetries

NextReports ==
    \/ \E value \in ForeignReports : ProduceForeign(ReportsTopic, value)
    \/ \E w \in DWorkers : DecisionPoll(w)
    \/ \E w \in DWorkers : DecisionRead(w)
    \/ \E w \in DWorkers : DecisionUpdate(w)
    \/ \E w \in DWorkers : DecisionCommit(w)
    \/ \E w \in DWorkers : DecisionAck(w)
    \/ \E w \in DWorkers : DecisionFail(w)
    \/ \E w \in DWorkers : DecisionRestart(w)
    \/ \E w \in DWorkers : DecisionRebalance(w)

SpecReports == InitReports /\ [][NextReports]_vars

(***************************************************************************)
(* Both workers on topics that also carry messages of other producers      *)
(***************************************************************************)
NextForeign ==
    \/ NextReports
    \/ \E value \in ForeignSubmissions : ProduceForeign(SubmittedTopic, value)
    \/ \E outcome \in CreditOutcomes, delivery \in DeliveryOutcomes :
          CreditConsume(outcome, delivery)
    \/ CreditRestart

SpecForeign == InitReports /\ [][NextForeign]_vars

(***************************************************************************)
(* CibilService.calculate_score called on its own: a payload is drawn, and *)
(* the processes of ScoreProcs score it and other payloads, at most        *)
(* MaxCalls times in all                                                   *)
(***************************************************************************)
MaxCalls == 3
ScoreProcs == {1, 2}

Optional(S) == {None} \cup {Some(v) : v \in S}

\* A payload has or lacks each of the four keys calculate_score reads
ScoreChoices == [pan_number : Optional({"ABCDE1234F", "FGHIJ5678K", "ZZZZZ9999Z"}),
                 monthly_income_inr : Optional({29999, 30000, 75000, 75001}),
                 loan_type : Optional({"PERSONAL", "personal", "HOME", "AUTO"}),
                 application_id : Optional({1, 2})]
Payload(c) == [k \in {f \in DOMAIN c : c[f] # None} |-> c[k][1]]
ScoreInputs == {Payload(c) : c \in ScoreChoices}

\* The payloads scored in between
OtherInputs == {[application_id |-> 1, monthly_income_inr |-> 80000],
                [application_id |-> 2, loan_type |-> "HOME"]}

InitScoring ==
    /\ InitTables
    /\ batch_size = BatchSize
    /\ max_update_retries = MaxUpdateRetries
    /\ faults = 0
    /\ scoring \in {[input |-> d,
                     generator |-> [p \in ScoreProcs |-> NewGenerator(p)],
                     calls |-> <<>>] : d \in ScoreInputs}
    /\ deciding = [monthly_income |-> 0, requested_amount |-> 0, cibil_score |-> 0,
                   decision |-> None]

\* Process p calls CibilService.calculate_score(application_data)
Score(p, application_data) ==
    /\ Len(scoring.calls) < MaxCalls
    /\ LET returned == calculate_score_call(application_data, scoring.generator[p])
       IN  scoring' = [scoring EXCEPT
                          !.generator[p] = returned.generator,
                          !.calls = Append(@, [process |-> p, input |-> application_data,
                                               score |-> returned.score])]
    /\ UNCHANGED <<dbVars, busVars, pubVars, creditVars, decisionVars, histVars, runVars,
                   deciding, max_update_retries, faults>>

NextScoring ==
    \/ \E p \in ScoreProcs : Score(p, scoring.input)
    \/ \E p \in ScoreProcs, d \in OtherInputs : Score(p, d)

SpecScoring == InitScoring /\ [][NextScoring]_vars

(***************************************************************************)
(* DecisionService.make_decision called on its own.  Incomes and amounts   *)
(* are decimal numbers with two fractional digits, given in hundredths     *)
(***************************************************************************)
DecisionIncomes == {0, 999999, 1000000, 1000001, 4140490, 4400183}
DecisionAmounts == {48000000, 50000000, 198743520, 211208784}
DecisionScores == {300, 649, 650, 900}

InitDecision ==
    /\ InitTables
    /\ batch_size = BatchSize
    /\ max_update_retries = MaxUpdateRetries
    /\ faults = 0
    /\ scoring = [input |-> <<>>, generator |-> <<>>, calls |-> <<>>]
    /\ deciding \in [monthly_income : DecisionIncomes, requested_amount : DecisionAmounts,
                      cibil_score : DecisionScores, decision : {None}]

\* DecisionService.make_decision({monthly_income_inr, loan_amount_inr}, cibil_score)
Decide ==
    /\ deciding.decision = None
    /\ deciding' = [deciding EXCEPT
                       !.decision = Some(make_decision(
                                             float_of_decimal(deciding.monthly_income),
                                             float_of_decimal(deciding.requested_amount),
                                             deciding.cibil_score))]
    /\ UNCHANGED <<dbVars, busVars, pubVars, creditVars, decisionVars, histVars, runVars,
                   scoring, max_update_retries, faults>>

NextDecision == Decide

SpecDecision == InitDecision /\ [][NextDecision]_vars

(***************************************************************************)
(* Properties                                                              *)
(***************************************************************************)
Offsets(topic) == 0..(Len(topic) - 1)

SubmittedId(offset) ==
    message_id(Get(MessageAt(topicSubmitted, offset).value, "application_id", 0),
               SubmittedTopic, 0, offset)

ReportId(offset) ==
    message_id(Get(MessageAt(topicReports, offset).value, "application_id", 0),
               ReportsTopic, 0, offset)

\* C1: every outbox row with published = true has a message on the bus that
\* carries its aggregate id as key and its payload as value
C1_PublishedIsOnBus ==
    \A i \in DOMAIN outbox_events :
        outbox_events[i].published =>
            \E k \in DOMAIN topicSubmitted :
                /\ topicSubmitted[k].key = outbox_events[i].aggregate_id
                /\ topicSubmitted[k].value = outbox_events[i].payload

\* C2: the Application row and its outbox row are committed together: every
\* application has exactly one outbox row with its id as aggregate_id, every
\* outbox row belongs to a committed application, and a failed commit leaves
\* neither row
C2_ApplicationAndOutboxAtomic ==
    /\ \A a \in DOMAIN applications :
          Cardinality({i \in DOMAIN outbox_events : outbox_events[i].aggregate_id = a}) = 1
    /\ \A i \in DOMAIN outbox_events :
          /\ outbox_events[i].aggregate_id \in DOMAIN applications
          /\ outbox_events[i].event_type = "APPLICATION_SUBMITTED"
          /\ outbox_events[i].payload.application_id = outbox_events[i].aggregate_id

\* C2 witness: a create_application commit failed before, and two applications
\* are committed, each with its outbox row, one of them still unpublished
C2_Witness ==
    /\ Cardinality(DOMAIN applications) = 2
    /\ Len(outbox_events) = 2
    /\ faults < MaxFaults
    /\ topicSubmitted = <<>>
    /\ \E i \in DOMAIN outbox_events : ~outbox_events[i].published

ReportsFor(offset) == {k \in DOMAIN topicReports : topicReports[k].cause = offset}

\* C3: for every submission message the Scoring Worker has put at most one
\* report on the bus; the ledger row of the message is there only together
\* with its report; and once the offset of the message is committed the ledger
\* holds its row
C3_OneReportPerSubmission ==
    \A o \in Offsets(topicSubmitted) :
        /\ Cardinality(ReportsFor(o)) <= 1
        /\ is_already_processed(processed_messages, SubmittedId(o))
              => Cardinality(ReportsFor(o)) = 1
        /\ o < cCommitted => is_already_processed(processed_messages, SubmittedId(o))

\* C4: a worker that receives a message whose fingerprint is in the ledger
\* commits the offset of the message and changes nothing else: no table, no
\* topic, no session changes
C4_ReplayHasNoEffect ==
    [][ /\ (/\ cPos' = cPos + 1
            /\ is_already_processed(processed_messages, SubmittedId(cPos)))
           => /\ cCommitted' = cPos + 1
              /\ UNCHANGED <<dbVars, busVars, update_log>>
        /\ \A w \in DWorkers :
             (/\ dPc[w] = "idle"
              /\ dPos'[w] = dPos[w] + 1
              /\ dOwner' = dOwner
              /\ faults' = faults
              /\ dPos[w] < Len(topicReports)
              /\ is_already_processed(processed_messages, ReportId(dPos[w])))
             => /\ dCommitted' = dPos[w] + 1
                /\ dPc'[w] = "idle"
                /\ UNCHANGED <<dbVars, busVars, update_log, dTx>> ]_vars

\* C4 witness: the offset of a score-report message was committed by the
\* replay branch: the ledger holds its fingerprint, its offset is committed,
\* and the success path never committed it
C4_Witness ==
    \E o \in Offsets(topicReports) :
        /\ o < dCommitted
        /\ is_already_processed(processed_messages, ReportId(o))
        /\ ReportId(o) \notin ack_log

UpdatesFor(mid) == {u \in update_log : u.message_id = mid}

\* C5: in the Decision Worker the ledger holds the fingerprint of a
\* score-report message exactly when one UPDATE made for that message is
\* committed; no message has two committed UPDATEs or two ledger rows
C5_LedgerIffOneUpdate ==
    /\ \A o \in Offsets(topicReports) :
          /\ Cardinality(UpdatesFor(ReportId(o))) <= 1
          /\ is_already_processed(processed_messages, ReportId(o))
                <=> Cardinality(UpdatesFor(ReportId(o))) = 1
    /\ \A u \in update_log : \E o \in Offsets(topicReports) : u.message_id = ReportId(o)
    /\ \A r1, r2 \in processed_messages : r1.message_id = r2.message_id => r1 = r2

\* C5 witness: an instance holds an uncommitted UPDATE for a message that
\* another instance has committed in the meantime
C5_Witness ==
    \E w \in DWorkers :
        /\ dPc[w] = "commit"
        /\ dTx[w] # None
        /\ is_already_processed(processed_messages, DMessageId(w))
        /\ Cardinality(UpdatesFor(DMessageId(w))) = 1

\* A score report the Decision Worker skips for good: no cibil_score, or no
\* application row
PermanentError(offset) ==
    LET value == MessageAt(topicReports, offset).value
    IN  \/ "cibil_score" \notin DOMAIN value
        \/ Get(value, "application_id", 0) \notin DOMAIN applications

\* C6: every message below the committed offset of its partition has a ledger
\* row or was skipped as a permanent error
C6_CommittedOffsetCoversProcessed ==
    /\ \A o \in Offsets(topicSubmitted) :
          o < cCommitted => is_already_processed(processed_messages, SubmittedId(o))
    /\ \A o \in Offsets(topicReports) :
          o < dCommitted => \/ is_already_processed(processed_messages, ReportId(o))
                            \/ PermanentError(o)

\* C7: the success path commits the offset of a message only after the
\* transaction with its ledger row is committed: every message acknowledged
\* by the success path has its ledger row, and an instance that is about to
\* commit an offset has no open transaction
C7_OffsetCommitAfterDbCommit ==
    /\ \A mid \in ack_log : is_already_processed(processed_messages, mid)
    /\ \A w \in DWorkers :
          dPc[w] = "ack" => /\ dTx[w] = None
                            /\ is_already_processed(processed_messages, DMessageId(w))

\* C7 witness: both workers have acknowledged a message on the success path
C7_Witness ==
    /\ \E mid \in ack_log : mid[2] = SubmittedTopic
    /\ \E mid \in ack_log : mid[2] = ReportsTopic
    /\ \E w \in DWorkers : dPc[w] = "ack"

\* C8: every application is mutated at most once after its creation
C8_VersionAtMostTwo ==
    \A a \in DOMAIN applications : applications[a].version <= 2

TerminalStatuses == {"PRE_APPROVED", "REJECTED", "MANUAL_REVIEW"}

\* C9: the status of an application changes only from PENDING to a terminal
\* status; a terminal status is never changed
C9_StatusMonotonic ==
    [][ \A a \in DOMAIN applications :
          /\ applications'[a].status \in TerminalStatuses \cup {"PENDING"}
          /\ applications'[a].status # applications[a].status
                => /\ applications[a].status = "PENDING"
                   /\ applications'[a].status \in TerminalStatuses ]_vars

\* C9 witness: an application in a terminal status was updated a second time
C9_Witness ==
    \E a \in DOMAIN applications :
        /\ applications[a].status \in TerminalStatuses
        /\ applications[a].version >= 3

C11_ConcurrentSameMessage ==
    [][ /\ \A w \in DWorkers :
             (/\ dPc[w] = "commit"
              /\ dPc'[w] # "commit"
              /\ faults' = faults
              /\ is_already_processed(processed_messages, DMessageId(w)))
             => /\ UNCHANGED <<dbVars, update_log, dCommitted, ack_log>>
                /\ dTx'[w] = None
                /\ dPc'[w] = "idle"
        /\ \A l \in rollback_log' :
             /\ Cardinality({u \in update_log' : u.message_id = l[2]}) = 1
             /\ \A u \in update_log' :
                   u.message_id = l[2] => u.new_version = u.old_version + 1
        /\ \A w \in DWorkers :
             (/\ dPc[w] = "idle"
              /\ dPos'[w] = dPos[w] + 1
              /\ dOwner' = dOwner
              /\ faults' = faults
              /\ dPos[w] < Len(topicReports)
              /\ <<w, ReportId(dPos[w])>> \in rollback_log)
             => /\ dCommitted' = dPos[w] + 1
                /\ dPc'[w] = "idle"
                /\ UNCHANGED <<dbVars, update_log>> ]_vars

\* C11 witness: an instance lost the race on a message, was restarted, got
\* the message again and committed its offset from the replay branch
C11_Witness ==
    \E l \in rollback_log :
        /\ l[1] = dOwner
        /\ dPc[l[1]] = "idle"
        /\ dPos[l[1]] > l[2][4]
        /\ dCommitted > l[2][4]
        /\ l[2] \notin ack_log
        /\ Cardinality(UpdatesFor(l[2])) = 1

\* C12: under fair scheduling every committed application eventually leaves
\* PENDING for a terminal status
C12_EventuallyDecided ==
    \A a \in AppIds :
        (a \in DOMAIN applications)
            ~> (a \in DOMAIN applications /\ applications[a].status \in TerminalStatuses)

\* C13: under a fair publisher loop every committed outbox row eventually is
\* published or has retry_count = max_retries
C13_RowEventuallySettled ==
    \A i \in 1..NumApps :
        (i \in DOMAIN outbox_events)
            ~> (/\ i \in DOMAIN outbox_events
                /\ \/ outbox_events[i].published
                   \/ outbox_events[i].retry_count = MaxRetries)

\* C13 witness: with one row per cycle the older row failed max_retries times
\* and opened the breaker, the younger row was rejected while the breaker was
\* open and was published by the first call after the open timeout
C13_Witness ==
    /\ batch_size = 1
    /\ Len(outbox_events) = 2
    /\ ~outbox_events[1].published
    /\ outbox_events[1].retry_count = MaxRetries
    /\ outbox_events[2].published
    /\ outbox_events[2].retry_count >= 1
    /\ outbox_events[2].published_at = Some(Timeout)
    /\ circuit_breaker.state = "HALF_OPEN"

\* C14: the breaker starts CLOSED; a call moves it from CLOSED to OPEN exactly
\* when it is the failure_threshold-th failed call in a row; a successful call
\* sets failure_count to 0; in CLOSED failure_count is the number of failed
\* calls in a row and is below failure_threshold
C14_OpensAfterThreshold ==
    /\ circuit_breaker = NewCircuitBreaker
    /\ [][ now' = now =>
             /\ (circuit_breaker.state = "CLOSED" /\ circuit_breaker'.state = "OPEN")
                  <=> (/\ circuit_breaker.state = "CLOSED"
                       /\ breaker_log'.last = "failure"
                       /\ breaker_log'.consecutive = FailureThreshold)
             /\ breaker_log'.last = "success" => circuit_breaker'.failure_count = 0
             /\ circuit_breaker'.state = "CLOSED"
                  => /\ circuit_breaker'.failure_count = breaker_log'.consecutive
                     /\ circuit_breaker'.failure_count < FailureThreshold ]_vars

\* C14 witness: four failed calls, a success, and four failed calls again left
\* the breaker CLOSED
C14_Witness ==
    /\ circuit_breaker.state = "CLOSED"
    /\ circuit_breaker.failure_count = FailureThreshold - 1
    /\ circuit_breaker.last_failure_time # None
    /\ circuit_breaker.last_failure_time[1] >= TickStep
    /\ breaker_log.last = "failure"

\* C15: a call made while the breaker is OPEN and less than timeout has passed
\* since the last failure is rejected without invoking the function and leaves
\* the breaker as it is, last_failure_time included; a call made when timeout
\* has passed is let through: a success leaves the breaker HALF_OPEN with one
\* success counted, a failure opens it again as of now
C15_OpenFailsFast ==
    [][ (now' = now /\ circuit_breaker.state = "OPEN") =>
          IF now - circuit_breaker.last_failure_time[1] < Timeout
          THEN /\ breaker_log'.last = "rejected"
               /\ circuit_breaker' = circuit_breaker
          ELSE /\ breaker_log'.last \in {"success", "failure"}
               /\ breaker_log'.last = "success"
                    => /\ circuit_breaker'.state = "HALF_OPEN"
                       /\ circuit_breaker'.success_count = 1
               /\ breaker_log'.last = "failure"
                    => /\ circuit_breaker'.state = "OPEN"
                       /\ circuit_breaker'.last_failure_time = Some(now) ]_vars

\* C15 witness: a call was rejected after the breaker opened, and a later
\* call, timeout after the failure that opened it, was let through
C15_Witness ==
    /\ circuit_breaker.state = "HALF_OPEN"
    /\ breaker_log.last = "success"
    /\ breaker_log.last_rejected # None
    /\ breaker_log.last_rejected[1] > circuit_breaker.last_failure_time[1]
    /\ now - circuit_breaker.last_failure_time[1] >= Timeout
    /\ now - breaker_log.last_rejected[1] < Timeout

\* C16: in HALF_OPEN no call is rejected; the success that brings
\* success_count to success_threshold closes the breaker with both counters
\* at 0, an earlier success is counted; a failure opens the breaker with
\* success_count 0 and last_failure_time now
C16_HalfOpen ==
    [][ (now' = now /\ circuit_breaker.state = "HALF_OPEN") =>
          /\ breaker_log'.last \in {"success", "failure"}
          /\ breaker_log'.last = "success"
               => IF circuit_breaker.success_count + 1 >= SuccessThreshold
                  THEN /\ circuit_breaker'.state = "CLOSED"
                       /\ circuit_breaker'.failure_count = 0
                       /\ circuit_breaker'.success_count = 0
                  ELSE /\ circuit_breaker'.state = "HALF_OPEN"
                       /\ circuit_breaker'.success_count = circuit_breaker.success_count + 1
          /\ breaker_log'.last = "failure"
               => /\ circuit_breaker'.state = "OPEN"
                  /\ circuit_breaker'.success_count = 0
                  /\ circuit_breaker'.last_failure_time = Some(now) ]_vars

\* C16 witness: the breaker failed in HALF_OPEN, opened again, and was closed
\* by two successes after the second open timeout
C16_Witness ==
    /\ circuit_breaker.state = "CLOSED"
    /\ circuit_breaker.failure_count = 0
    /\ circuit_breaker.success_count = 0
    /\ circuit_breaker.last_failure_time # None
    /\ circuit_breaker.last_failure_time[1] >= Timeout
    /\ now - circuit_breaker.last_failure_time[1] >= Timeout
    /\ breaker_log.last = "success"

BusCount(key) == Cardinality({k \in DOMAIN topicSubmitted : topicSubmitted[k].key = key})

\* C17: retry_count of every outbox row stays within 0..max_retries, and a
\* step leaves a row with retry_count = max_retries as it is (unpublished,
\* with its error_message) and puts no message of its aggregate on the bus
C17_RetryCeiling ==
    [][ \A i \in DOMAIN outbox_events :
          /\ outbox_events'[i].retry_count \in 0..MaxRetries
          /\ outbox_events[i].retry_count = MaxRetries
               => /\ ~outbox_events[i].published
                  /\ outbox_events[i].error_message # None
                  /\ outbox_events'[i] = outbox_events[i]
                  /\ i \notin {select_batch(outbox_events)[k] :
                                  k \in DOMAIN select_batch(outbox_events)}
                  /\ Cardinality({k \in DOMAIN topicSubmitted' :
                                    topicSubmitted'[k].key = outbox_events[i].aggregate_id})
                       = BusCount(outbox_events[i].aggregate_id) ]_vars

\* C17 witness: a row was given up after max_retries bus failures, which
\* opened the breaker; a row created later was rejected by the open breaker
\* and published after the open timeout, in cycles that left the first row alone
C17_Witness ==
    /\ batch_size = BatchSize
    /\ Len(outbox_events) = 2
    /\ outbox_events[1].retry_count = MaxRetries
    /\ ~outbox_events[1].published
    /\ outbox_events[1].error_message = Some("KafkaException")
    /\ outbox_events[2].published
    /\ outbox_events[2].retry_count >= 1
    /\ BusCount(outbox_events[1].aggregate_id) = 0
    /\ BusCount(outbox_events[2].aggregate_id) = 1

\* C18: of two outbox rows of one aggregate the message of the later row is on
\* the bus only behind the message of the earlier row
C18_AggregateOrder ==
    \A i, j \in DOMAIN outbox_events :
        (i < j /\ outbox_events[i].aggregate_id = outbox_events[j].aggregate_id) =>
            \A k \in DOMAIN topicSubmitted :
                topicSubmitted[k].value = outbox_events[j].payload =>
                    \E h \in 1..(k - 1) : topicSubmitted[h].value = outbox_events[i].payload

\* C19: a batch cycle is committed as a whole: a step that changes outbox rows
\* changes every row the cycle selected, or none of them
C19_CycleCommittedTogether ==
    [][ LET events == select_batch(outbox_events)
            selected == {events[k] : k \in DOMAIN events}
            changed == {i \in DOMAIN outbox_events : outbox_events'[i] # outbox_events[i]}
        IN  changed = {} \/ changed = selected ]_vars

\* C20: no step changes a field of an outbox row that has published = true
C20_PublishedRowFrozen ==
    [][ \A i \in DOMAIN outbox_events :
          outbox_events[i].published => outbox_events'[i] = outbox_events[i] ]_vars

\* C21: no two Application rows share a pan_number_hash, and a request that
\* passed the duplicate check and lost at the commit left no row in any of
\* the three tables: every audit_log and outbox row belongs to an Application
\* row, one of each per application
C21_PanHashUnique ==
    /\ \A a, b \in DOMAIN applications :
          applications[a].pan_number_hash = applications[b].pan_number_hash => a = b
    /\ Len(audit_log) = Cardinality(DOMAIN applications)
    /\ Len(outbox_events) = Cardinality(DOMAIN applications)
    /\ \A i \in DOMAIN audit_log : audit_log[i].application_id \in DOMAIN applications
    /\ \A i \in DOMAIN outbox_events : outbox_events[i].aggregate_id \in DOMAIN applications
    /\ \A a \in DOMAIN applications :
          Cardinality({i \in DOMAIN outbox_events : outbox_events[i].aggregate_id = a}) = 1

\* C21 witness: two requests for one PAN both passed the duplicate check; one
\* committed, the other was rejected at the commit
C21_Witness ==
    \E r, q \in Requests :
        /\ r # q
        /\ requests[r].pan = requests[q].pan
        /\ requests[r].pc = "done" /\ requests[r].result = "202"
        /\ requests[q].pc = "done" /\ requests[q].result = "DUPLICATE_PAN"
        /\ requests[q].message = "Database integrity error"
        /\ Cardinality(DOMAIN applications) = 1
        /\ faults = MaxFaults

\* C22: a create_application call for a PAN whose hash is stored ends at the
\* duplicate check with DUPLICATE_PAN and changes no table, and at most one
\* Application row exists per PAN
C22_DuplicateRejected ==
    /\ \A pan \in PANs :
          Cardinality({a \in DOMAIN applications :
                          applications[a].pan_number_hash = hash_pan(pan)}) <= 1
    /\ [][\A r \in Requests :
            (/\ requests[r].pc = "idle"
             /\ requests'[r].pc # "idle"
             /\ \E a \in DOMAIN applications :
                   applications[a].pan_number_hash = hash_pan(requests'[r].pan))
            => /\ requests'[r].pc = "done"
               /\ requests'[r].result = "DUPLICATE_PAN"
               /\ requests'[r].message = "Duplicate PAN detected"
               /\ UNCHANGED <<applications, outbox_events, audit_log>>]_vars

\* C22 witness: a stored PAN was submitted again and rejected at the check
C22_Witness ==
    \E r \in Requests :
        /\ requests[r].pc = "done"
        /\ requests[r].result = "DUPLICATE_PAN"
        /\ requests[r].message = "Duplicate PAN detected"
        /\ Cardinality({a \in DOMAIN applications :
                           applications[a].pan_number_hash = hash_pan(requests[r].pan)}) = 1
        /\ Cardinality(DOMAIN applications) = 2

\* The Application rows submitted with a PAN whose pipeline has run to a
\* decision while no failure was injected
DecidedWithoutFailure(pan) ==
    {a \in DOMAIN applications :
        /\ decrypt_pan(applications[a].pan_number_encrypted) = pan
        /\ applications[a].requested_amount = 500000
        /\ applications[a].status \in TerminalStatuses
        /\ faults = MaxFaults}

\* C23: an application with PAN ABCDE1234F and amount 500,000 that the pipeline
\* has decided without failures has status PRE_APPROVED and credit_score 790
C23_GoodPanPreApproved ==
    \A a \in DecidedWithoutFailure("ABCDE1234F") :
        /\ applications[a].status = "PRE_APPROVED"
        /\ applications[a].credit_score = Some(790)

\* C24: an application with PAN FGHIJ5678K and amount 500,000 that the pipeline
\* has decided without failures has status REJECTED, credit_score 610 and no
\* max_approved_amount
C24_BadPanRejected ==
    \A a \in DecidedWithoutFailure("FGHIJ5678K") :
        /\ applications[a].status = "REJECTED"
        /\ applications[a].credit_score = Some(610)
        /\ applications[a].max_approved_amount = None

\* C25: within a partition no message has its side-effects committed (its
\* ledger row) while a message at a lower offset is still unprocessed: a
\* failing message blocks the messages behind it
C25_FailedMessageBlocksPartition ==
    /\ \A o, q \in Offsets(topicSubmitted) :
          (o < q /\ is_already_processed(processed_messages, SubmittedId(q)))
             => is_already_processed(processed_messages, SubmittedId(o))
    /\ \A o, q \in Offsets(topicReports) :
          (o < q /\ is_already_processed(processed_messages, ReportId(q)))
             => \/ is_already_processed(processed_messages, ReportId(o))
                \/ PermanentError(o)

\* C26: a shutdown signal meets a worker only between messages: no signal has
\* ended a process_message between its start and its offset commit
C26_SignalBetweenMessages ==
    \A l \in signal_log : ~l.interrupted /\ l.at = "idle"

\* C27: update_with_retry makes at most max_update_retries attempts; the
\* conflict of the last attempt raises OptimisticLockError, and the step that
\* raises it changes no table, leaves no open transaction and commits no
\* offset; the message gets no ledger row from that instance
C27_RetryExhaustion ==
    /\ \A w \in DWorkers : dAttempt[w] + 1 <= MaxUpdateRetries
    /\ \A l \in retry_log : l.attempts = MaxUpdateRetries
    /\ [][\A w \in DWorkers :
            (/\ dPc[w] = "update"
             /\ dPc'[w] # "update"
             /\ faults' = faults
             /\ ~update_matches(applications, DAppId(w), dVersion[w]))
            => IF dAttempt[w] + 1 < MaxUpdateRetries
               THEN dPc'[w] = "read" /\ retry_log' = retry_log
               ELSE /\ retry_log' # retry_log
                    /\ dPc'[w] = "idle"
                    /\ dTx'[w] = None
                    /\ UNCHANGED <<dbVars, dCommitted, ack_log, update_log>>]_vars

\* C27 witness: an instance has exhausted its attempts on a message, holds no
\* transaction and no update of its message by that call is committed
C27_Witness ==
    \E l \in retry_log :
        /\ l.attempts = MaxUpdateRetries
        /\ dPc[l.instance] = "idle"
        /\ dTx[l.instance] = None
        /\ dCommitted <= MaxTopicLen

\* A score report with a malformed payload: not JSON, or without cibil_score
MalformedReport(offset) ==
    LET value == MessageAt(topicReports, offset).value
    IN  ~json_loads_ok(value) \/ "cibil_score" \notin DOMAIN value

\* C28: a message with a malformed payload changes nothing in the database
\* and puts no report on the bus, and once the worker has taken it from the
\* partition its offset is committed
C28_MalformedAdvanced ==
    /\ \A o \in Offsets(topicReports) :
          MalformedReport(o)
             => /\ ~is_already_processed(processed_messages, ReportId(o))
                /\ UpdatesFor(ReportId(o)) = {}
                /\ dPos[dOwner] > o => dCommitted > o
    /\ \A o \in Offsets(topicSubmitted) :
          ~json_loads_ok(MessageAt(topicSubmitted, o).value)
             => /\ ~is_already_processed(processed_messages, SubmittedId(o))
                /\ ReportsFor(o) = {}
                /\ cPos > o => cCommitted > o

\* C29: the step of a Decision Worker that takes a score report naming no
\* Application row commits the offset of that message and changes no table;
\* such a message never gets a ledger row or an update, and the worker that
\* owns the partition is never positioned behind the committed offset of it
C29_MissingRowAdvanced ==
    /\ \A o \in Offsets(topicReports) :
          LET value == MessageAt(topicReports, o).value
          IN  (/\ json_loads_ok(value)
               /\ "cibil_score" \in DOMAIN value
               /\ Get(value, "application_id", 0) \notin DOMAIN applications)
              => /\ ~is_already_processed(processed_messages, ReportId(o))
                 /\ UpdatesFor(ReportId(o)) = {}
                 /\ dPos[dOwner] > o => dCommitted > o
    /\ [][\A w \in DWorkers :
            LET value == MessageAt(topicReports, dPos[w]).value
            IN  (/\ dPos[w] < Len(topicReports)
                 /\ dPc[w] = "idle"
                 /\ dPos'[w] = dPos[w] + 1
                 /\ json_loads_ok(value)
                 /\ "cibil_score" \in DOMAIN value
                 /\ Get(value, "application_id", 0) \notin DOMAIN applications)
                => /\ dCommitted' = dPos[w] + 1
                   /\ dPc'[w] = "idle"
                   /\ UNCHANGED <<dbVars, update_log>>]_vars

\* C29 witness: the owner of the partition has taken a report that names no
\* Application row, and the committed offset is past it
C29_Witness ==
    \E o \in Offsets(topicReports) :
        /\ Get(MessageAt(topicReports, o).value, "application_id", 0) = UnknownApplicationId
        /\ dPos[dOwner] > o
        /\ dCommitted = o + 1
        /\ ~is_already_processed(processed_messages, ReportId(o))

\* C30: once stop() has cleared the flag an instance starts no batch cycle;
\* start() returns, by the loop condition or by cancellation, only between
\* two cycles, with the producer flushed; a cycle in progress when stop() is
\* called is not cut short
C30_StopBetweenCycles ==
    /\ \A p \in Publishers :
          publishers[p].exited => /\ publishers[p].pc = "idle"
                                  /\ publishers[p].events = <<>>
                                  /\ publishers[p].flushed
                                  /\ ~publishers[p].running
    /\ [][\A p \in Publishers :
            /\ (~publishers[p].running /\ publishers[p].pc = "idle")
                  => publishers'[p].pc = "idle"
            /\ publishers[p].exited => publishers'[p] = publishers[p]
            /\ (publishers[p].pc = "loaded" /\ publishers'[p].pc # "loaded")
                  => ~publishers'[p].exited]_vars

\* C30 witness: stop() met an instance inside a cycle; the instance finished
\* the cycle, publishing its row, and then returned
C30_Witness ==
    \E p \in Publishers :
        /\ publishers[p].stopped_at = "loaded"
        /\ publishers[p].exited
        /\ \E i \in DOMAIN outbox_events : outbox_events[i].published
        /\ \A q \in Publishers \ {p} : publishers[q].stopped_at = "none" /\ publishers[q].pc = "idle"

\* Rows a SELECT may return: unpublished and below the retry ceiling
Eligible == {i \in DOMAIN outbox_events :
                ~outbox_events[i].published /\ outbox_events[i].retry_count < MaxRetries}

\* The at most batch_size oldest of them (rows are stored in creation order)
OldestEligible == {i \in Eligible : Cardinality({j \in Eligible : j < i}) < batch_size}

\* The outbox row a message on the bus was sent for
RowOf(msg) == CHOOSE i \in DOMAIN outbox_events :
                 outbox_events[i].aggregate_id = msg.key /\ outbox_events[i].payload = msg.value

\* C31: the rows a batch cycle changes and the messages it sends belong to
\* the at most batch_size oldest rows that are unpublished and below the
\* retry ceiling; the messages are sent in ascending order of the rows; a
\* cycle without failure leaves every one of these rows published
C31_BatchSelection ==
    [][LET sent == SubSeq(topicSubmitted', Len(topicSubmitted) + 1, Len(topicSubmitted'))
           touched == {i \in DOMAIN outbox_events : outbox_events'[i] # outbox_events[i]}
       IN  /\ touched \subseteq OldestEligible
           /\ \A k \in DOMAIN sent : RowOf(sent[k]) \in OldestEligible
           /\ \A k, l \in DOMAIN sent : k < l => RowOf(sent[k]) < RowOf(sent[l])
           /\ (faults' = faults /\ circuit_breaker.state = "CLOSED"
               /\ (touched # {} \/ sent # <<>>))
                 => /\ touched = OldestEligible
                    /\ \A i \in touched : outbox_events'[i].published
                    /\ Len(sent) = Cardinality(OldestEligible)]_vars

\* C31 witness: with batch_size 1 the oldest row was attempted until it
\* reached the retry ceiling; the cycles after that took the next row, which
\* is published and on the bus
C31_Witness ==
    /\ batch_size = 1
    /\ Len(outbox_events) = 2
    /\ ~outbox_events[1].published
    /\ outbox_events[1].retry_count = MaxRetries
    /\ outbox_events[2].published
    /\ outbox_events[2].retry_count = 0
    /\ Len(topicSubmitted) = 1
    /\ topicSubmitted[1].key = outbox_events[2].aggregate_id

\* C32: two calls of calculate_score with equal payloads (the application id
\* is part of the payload) return the same score, whichever process makes
\* them and whatever was scored in between
C32_ScorePure ==
    \A i, j \in DOMAIN scoring.calls :
       scoring.calls[i].input = scoring.calls[j].input
          => scoring.calls[i].score = scoring.calls[j].score

\* C32 witness: a payload without test PAN is scored in one process, then
\* another payload is scored in a second process with another result, then
\* the first payload is scored in that second process
C32_Witness ==
    /\ Len(scoring.calls) = 3
    /\ scoring.calls[1].input = scoring.calls[3].input
    /\ scoring.calls[2].input # scoring.calls[3].input
    /\ scoring.calls[1].process # scoring.calls[3].process
    /\ scoring.calls[2].process = scoring.calls[3].process
    /\ "pan_number" \notin DOMAIN scoring.calls[1].input
    /\ scoring.calls[2].score # scoring.calls[3].score

\* The score a call must return by the stated rule, product(_) being the
\* product adjustment of a loan type
ScoreAsStated(scored, product(_)) ==
    LET d == scored.input
        pan == Get(d, "pan_number", "")
        income == Get(d, "monthly_income_inr", 0)
        income_adjustment_stated == IF income > 75000 THEN 40
                                    ELSE IF income < 30000 THEN 0 - 20 ELSE 0
        unclamped == 650 + income_adjustment_stated + product(Get(d, "loan_type", ""))
    IN  IF pan = "ABCDE1234F" THEN scored.score = 790
        ELSE IF pan = "FGHIJ5678K" THEN scored.score = 610
        ELSE \E jitter \in (0 - 5)..5 :
                scored.score = Max(300, Min(900, unclamped + jitter))

\* Two calls without test PAN and with the same application id differ by
\* what their incomes and loan types make them differ
JitterByIdOnly(product(_)) ==
    \A i, j \in DOMAIN scoring.calls :
       LET c == scoring.calls[i]
           d == scoring.calls[j]
           adjustments(x) ==
               (LET income == Get(x.input, "monthly_income_inr", 0)
                IN  IF income > 75000 THEN 40 ELSE IF income < 30000 THEN 0 - 20 ELSE 0)
               + product(Get(x.input, "loan_type", ""))
       IN  (/\ Get(c.input, "pan_number", "") \notin {"ABCDE1234F", "FGHIJ5678K"}
            /\ Get(d.input, "pan_number", "") \notin {"ABCDE1234F", "FGHIJ5678K"}
            /\ Get(c.input, "application_id", 0) = Get(d.input, "application_id", 0))
           => c.score - adjustments(c) = d.score - adjustments(d)

ProductExact(loan_type) ==
    IF loan_type = "PERSONAL" THEN 0 - 10 ELSE IF loan_type = "HOME" THEN 10 ELSE 0

ProductAnyCase(loan_type) ==
    IF loan_type \in {"PERSONAL", "Personal", "personal"} THEN 0 - 10
    ELSE IF loan_type \in {"HOME", "Home", "home"} THEN 10 ELSE 0

\* C34 as stated: a test PAN gives its mapped score whatever the other
\* fields are; any other payload gives 650 + income adjustment + product
\* adjustment + jitter clamped to 300..900, where the product adjustment is
\* -10 for PERSONAL, +10 for HOME and 0 for anything else, and the jitter is
\* in -5..5 and the same for equal application ids
C34_ScoreFormula ==
    /\ \A i \in DOMAIN scoring.calls : ScoreAsStated(scoring.calls[i], ProductExact)
    /\ JitterByIdOnly(ProductExact)

\* C34 amended: the same, with the loan type compared in upper case, so that
\* any capitalisation of PERSONAL gives -10 and any capitalisation of HOME +10
C34_ScoreFormulaAnyCase ==
    /\ \A i \in DOMAIN scoring.calls : ScoreAsStated(scoring.calls[i], ProductAnyCase)
    /\ JitterByIdOnly(ProductAnyCase)

\* C34 witness: a payload of application 1 with loan type personal and an
\* income of exactly 75000 got 650 - 10 + 5, then another payload of
\* application 1 with income 80000 got 650 + 40 + 5
C34_Witness ==
    /\ Len(scoring.calls) = 2
    /\ scoring.calls[1].input = [pan_number |-> "ZZZZZ9999Z", monthly_income_inr |-> 75000,
                                 loan_type |-> "personal", application_id |-> 1]
    /\ scoring.calls[1].score = 645
    /\ scoring.calls[2].input = [application_id |-> 1, monthly_income_inr |-> 80000]
    /\ scoring.calls[2].score = 695

C33_DecisionRule ==
    deciding.decision # None =>
       LET decision == deciding.decision[1]
           amount == Some(float_mul(float_of_decimal(deciding.monthly_income), 48))
       IN  /\ deciding.cibil_score < 650
                => decision.status = "REJECTED" /\ decision.max_approved_amount = None
           /\ (deciding.cibil_score >= 650
               /\ deciding.monthly_income * 48 > deciding.requested_amount)
                => decision.status = "PRE_APPROVED" /\ decision.max_approved_amount = amount
           /\ (deciding.cibil_score >= 650
               /\ deciding.monthly_income * 48 <= deciding.requested_amount)
                => decision.status = "MANUAL_REVIEW" /\ decision.max_approved_amount = amount

\* C40: the amount of a decision is null exactly when the status is
\* REJECTED, above the requested amount when the status is PRE_APPROVED, and
\* not above it when the status is MANUAL_REVIEW
C40_DecisionAmounts ==
    deciding.decision # None =>
       LET decision == deciding.decision[1]
           requested == float_of_decimal(deciding.requested_amount)
       IN  /\ decision.max_approved_amount = None <=> decision.status = "REJECTED"
           /\ decision.status = "PRE_APPROVED"
                => float_gt(decision.max_approved_amount[1], requested)
           /\ decision.status = "MANUAL_REVIEW"
                => ~float_gt(decision.max_approved_amount[1], requested)

\* C36: whatever max_update_retries is, a report is in the ledger of the
\* Decision Worker, and its offset committed by the success path, only if the
\* UPDATE of the application was committed for it
C36_LedgerImpliesUpdate ==
    /\ \A r \in processed_messages :
          r.consumer_group = DecisionGroup
             => \E u \in update_log : u.message_id = r.message_id
    /\ \A w \in DWorkers : dPc[w] = "ack" => UpdatesFor(DMessageId(w)) # {}

\* C37: a batch cycle that starts with the breaker OPEN and its timeout not
\* elapsed, in which every call is rejected without a bus call, increments the
\* retry_count of no row; so a row reaches the retry ceiling only by sends
\* that failed
C37_RejectionNotCounted ==
    [][(/\ circuit_breaker.state = "OPEN"
        /\ now - circuit_breaker.last_failure_time[1] < Timeout)
          => \A i \in DOMAIN outbox_events :
                outbox_events'[i].retry_count = outbox_events[i].retry_count]_vars

\* C38: the breaker is CLOSED, OPEN or HALF_OPEN; CLOSED goes with a
\* failure_count below the threshold and success_count 0; a success_count
\* above 0 goes with HALF_OPEN and is below its threshold; OPEN goes with a
\* last_failure_time
C38_BreakerInvariant ==
    /\ circuit_breaker.state \in {"CLOSED", "OPEN", "HALF_OPEN"}
    /\ circuit_breaker.state = "CLOSED"
          => /\ circuit_breaker.failure_count < FailureThreshold
             /\ circuit_breaker.success_count = 0
    /\ circuit_breaker.success_count > 0
          => /\ circuit_breaker.state = "HALF_OPEN"
             /\ circuit_breaker.success_count < SuccessThreshold
    /\ circuit_breaker.state = "OPEN" => circuit_breaker.last_failure_time # None

\* C38 witness: the breaker went through OPEN and HALF_OPEN back to CLOSED
\* and has counted failures again since
C38_Witness ==
    /\ circuit_breaker.state = "CLOSED"
    /\ circuit_breaker.last_failure_time # None
    /\ circuit_breaker.failure_count = FailureThreshold - 1
    /\ breaker_log.last_rejected # None

====
